---- MODULE Spec2Model ----
(***************************************************************************)
(* client-pix: the content-addressed file store (services/storage_service),*)
(* the catalog handlers that keep FileHash reference counts over it        *)
(* (api/uploads, api/albums) and the temp-file sweeper (utils/cleanup_util,*)
(* api/system).                                                            *)
(*                                                                         *)
(* The specifications share the variables:                                 *)
(*   SpecStore       the StorageService interface called directly          *)
(*   Spec            the HTTP handlers over the catalog and the store      *)
(*   SpecSweep       the sweeper, the artifacts it reclaims and the clock  *)
(*   SpecTimedStore  image ingestions and deletions around a clock step    *)
(*   SpecPath        get_file_path over all its arguments                  *)
(*   SpecTasks       coroutines interleaved at their awaits, and the sweep *)
(*   SpecLifecycle   start_cleanup_task and stop_cleanup_task in any order *)
(*   SpecAuth        registration, login and 2FA verification              *)
(*   SpecCatalog     POST /upload and delete_photo, interleaved            *)
(*   SpecAssemble    the chunk files of a session and their concatenation  *)
(***************************************************************************)
EXTENDS Integers, Sequences, FiniteSets, TLC

VARIABLES
    disk,         \* the upload directory and /tmp: path -> [data, mtime]
    now,          \* time.time(), in seconds
    file_hashes,  \* table file_hashes: sha256_hash -> row
    photos,       \* table photos: id -> row
    albums,       \* table albums: set of ids
    chunks,       \* uploads/chunks/<upload_id>: session directory -> [mtime, files]
    cleanup_task, \* utils.cleanup_util._cleanup_task: whether it runs, and since when it sleeps
    uuid_count,   \* how many values uuid4() has handed out
    last,         \* the last call made and what it returned
    tasks,        \* coroutines, in the order they started: task id -> where it stands
    admins,       \* table admins: id -> row
    issued        \* the JWTs handed to clients so far

vars == <<disk, now, file_hashes, photos, albums, chunks, cleanup_task, uuid_count,
          last, tasks, admins, issued>>

-----------------------------------------------------------------------------
(* Bounds of the model *)

\* how many values uuid4() hands out
MaxUuid == 2

\* how many temp_<uuid> names the upload directory holds at once
MaxTemp == 1

\* how many Photo rows an earlier run has left in the database
MaxPhotos == 3

\* the reference_count up to which uploads are followed
MaxRefs == 2

\* how many chunked upload sessions are open at once
MaxSessions == 1

\* coroutines started in one behaviour of SpecTasks
MaxTasks == 2

-----------------------------------------------------------------------------
(* Uploaded bytes, file names, identities *)

\* byte strings a client may upload; "jpegA" decodes with PIL,
\* "rawC" does not (Image.open raises: e.g. a camera RAW file)
Bytes == {"jpegA", "rawC", "movV"}
Decodable == {"jpegA"}

\* len(chunk) summed over the stream
Size == [b \in Bytes |-> IF b = "jpegA" THEN 2 ELSE 5]

\* original_filename values
FileNames == {"IMG_0001.jpg", "copy.JPG", "scan.png", "DSC_7.cr2", "clip.mov"}

\* Path(original_filename).suffix
Suffix ==
    [f \in FileNames |->
        CASE f = "IMG_0001.jpg" -> ".jpg"
          [] f = "copy.JPG" -> ".JPG"
          [] f = "scan.png" -> ".png"
          [] f = "DSC_7.cr2" -> ".cr2"
          [] f = "clip.mov" -> ".mov"]

\* the uploads a client makes: bytes and the name they are sent under
Uploads ==
    {<<"jpegA", "IMG_0001.jpg">>, <<"jpegA", "copy.JPG">>, <<"jpegA", "scan.png">>,
     <<"rawC", "DSC_7.cr2">>, <<"movV", "clip.mov">>}

\* str.lower() on the suffixes above
Lower(s) == IF s = ".JPG" THEN ".jpg" ELSE s

VIDEO_MIME_TYPES == {".mp4", ".mov"}
IMAGE_MIME_TYPES == {".jpg", ".png", ".cr2"}

is_video(extension) == Lower(extension) \in VIDEO_MIME_TYPES

\* hashlib.sha256(...).hexdigest(): one digest per byte string, no collisions;
\* the digests share their first four characters so that they share a shard
SHA256(b) ==
    CASE b = "jpegA" -> <<"a", "b", "1", "2", "e">>
      [] b = "rawC" -> <<"a", "b", "1", "2", "f">>
      [] b = "movV" -> <<"c", "d", "3", "4", "0">>

HexChars == <<"0", "1", "2", "3", "4", "5", "6", "7", "8", "9">>

\* uuid.uuid4().hex: the n-th value of the pool
UuidHex(n) == <<"9", "9", "0", HexChars[n + 1]>>
Uuids == {UuidHex(n) : n \in 1..MaxUuid}

-----------------------------------------------------------------------------
(* Paths and the file system *)

VARIANT_ORIGINAL == "originals"
VARIANT_THUMBNAIL == "thumbnails"
VARIANT_WEB == "web"

\* a path below the upload directory (or /tmp): its components
MkPath(root, shard1, shard2, stem, ext) ==
    [root |-> root, shard1 |-> shard1, shard2 |-> shard2, stem |-> stem, ext |-> ext]

\* file_id[:2], file_id[2:4]
Slice(s, a, b) == SubSeq(s, a + 1, IF b < Len(s) THEN b ELSE Len(s))

_get_storage_path(file_id, variant, extension) ==
    MkPath(variant, Slice(file_id, 0, 2), Slice(file_id, 2, 4), file_id, extension)

_get_video_path(file_id, extension) ==
    MkPath("videos", <<>>, <<>>, file_id, extension)

\* upload_dir / f"temp_{uuid4().hex}{extension}"
TempPath(u, extension) == MkPath("temp_", <<>>, <<>>, u, extension)

Exists(d, p) == p \in DOMAIN d

WriteFile(d, p, data, t) ==
    [q \in DOMAIN d \cup {p} |-> IF q = p THEN [data |-> data, mtime |-> t] ELSE d[q]]

Unlink(d, p) == [q \in DOMAIN d \ {p} |-> d[q]]

\* Path.rename: the file keeps its content and its mtime, and replaces dst
Rename(d, src, dst) ==
    [q \in (DOMAIN d \ {src}) \cup {dst} |-> IF q = dst THEN d[src] ELSE d[q]]

\* file contents: uploaded bytes as they are, or something derived from them
Raw(b) == [kind |-> "raw", of |-> b]
Partial(b) == [kind |-> "partial", of |-> b]
Webp(kind, b) == [kind |-> kind, of |-> b]

PermanentRoots == {VARIANT_ORIGINAL, VARIANT_THUMBNAIL, VARIANT_WEB, "videos"}
Permanent(d) == {p \in DOMAIN d : p.root \in PermanentRoots}

NoDisk == [p \in {} |-> 0]

-----------------------------------------------------------------------------
(* StorageService *)

\* what the environment does to one call: nothing, or one failing step
StoreFaults == {"none", "write", "rename", "unlink", "thumb_save", "web_save"}

NoResult == [file_id |-> <<>>]

\* _generate_thumbnails_sync: Image.open(original_path), then thumb.save and
\* web.save; any exception is swallowed
_generate_thumbnails_sync(d, original_path, file_id, fault, t) ==
    IF ~Exists(d, original_path) THEN d
    ELSE IF d[original_path].data.kind # "raw" \/ d[original_path].data.of \notin Decodable THEN d
    ELSE IF fault = "thumb_save" THEN d
    ELSE
        LET src == d[original_path].data.of
            d1 == WriteFile(d, _get_storage_path(file_id, VARIANT_THUMBNAIL, ".webp"),
                            Webp("thumb", src), t)
        IN  IF fault = "web_save" THEN d1
            ELSE WriteFile(d1, _get_storage_path(file_id, VARIANT_WEB, ".webp"),
                           Webp("web", src), t)

\* get_image_dimensions: img.size, or (0, 0) when the file does not decode
get_image_dimensions(d, p) ==
    IF Exists(d, p) /\ d[p].data.kind = "raw" /\ d[p].data.of \in Decodable
    THEN <<4, 3>> ELSE <<0, 0>>

StoredFile(file_id, storage_path, extension, size, dims, dup, video) ==
    [file_id |-> file_id, storage_path |-> storage_path, file_extension |-> extension,
     file_size |-> size, width |-> dims[1], height |-> dims[2],
     is_duplicate |-> dup, is_video |-> video]

\* _store_video_streaming with the identity taken from the content, as for images
StoreVideoByContent(d, bytes, extension, u, fault, t) ==
    LET file_id == SHA256(bytes)
        storage_path == _get_video_path(file_id, extension)
    IN  IF fault = "write"
        THEN [disk |-> WriteFile(d, storage_path, Partial(bytes), t),
              raised |-> TRUE, result |-> NoResult]
        ELSE [disk |-> WriteFile(d, storage_path, Raw(bytes), t),
              raised |-> FALSE,
              result |-> StoredFile(file_id, storage_path, extension, Size[bytes],
                                    <<0, 0>>, Exists(d, storage_path), TRUE)]

\* _store_video_streaming: a fresh uuid, streamed straight to videos/<id><ext>
_store_video_streaming(d, bytes, extension, u, fault, t) ==
    LET file_id == u
        storage_path == _get_video_path(file_id, extension)
    IN  IF fault = "write"
        THEN \* f.write raises after the file was opened "wb": nothing removes it
             [disk |-> WriteFile(d, storage_path, Partial(bytes), t),
              raised |-> TRUE, result |-> NoResult]
        ELSE [disk |-> WriteFile(d, storage_path, Raw(bytes), t),
              raised |-> FALSE,
              result |-> StoredFile(file_id, storage_path, extension, Size[bytes],
                                    <<0, 0>>, FALSE, TRUE)]

\* _store_image_streaming whose duplicate branch only discards the temp file
StoreImageNoHeal(d, bytes, extension, u, fault, t) ==
    LET temp_path == TempPath(u, extension)
        d1 == WriteFile(d, temp_path, Raw(bytes), t)
        file_id == SHA256(bytes)
        storage_path == _get_storage_path(file_id, VARIANT_ORIGINAL, extension)
        is_duplicate == Exists(d1, storage_path)
        result(dd) == StoredFile(file_id, storage_path, extension, Size[bytes],
                                 get_image_dimensions(dd, storage_path), is_duplicate, FALSE)
    IN  IF fault = "write" THEN [disk |-> d, raised |-> TRUE, result |-> NoResult]
        ELSE IF is_duplicate
        THEN IF fault = "unlink" THEN [disk |-> d1, raised |-> TRUE, result |-> NoResult]
             ELSE [disk |-> d, raised |-> FALSE, result |-> result(d)]
        ELSE IF fault = "rename" THEN [disk |-> d, raised |-> TRUE, result |-> NoResult]
        ELSE LET d2 == Rename(d1, temp_path, storage_path)
                 d3 == _generate_thumbnails_sync(d2, storage_path, file_id, fault, t)
             IN  [disk |-> d3, raised |-> FALSE, result |-> result(d3)]

\* _store_image_streaming whose duplicate branch moves the temp file over the original
StoreImageReplace(d, bytes, extension, u, fault, t) ==
    LET temp_path == TempPath(u, extension)
        d1 == WriteFile(d, temp_path, Raw(bytes), t)
        file_id == SHA256(bytes)
        storage_path == _get_storage_path(file_id, VARIANT_ORIGINAL, extension)
        is_duplicate == Exists(d1, storage_path)
        result(dd) == StoredFile(file_id, storage_path, extension, Size[bytes],
                                 get_image_dimensions(dd, storage_path), is_duplicate, FALSE)
    IN  IF fault \in {"write", "rename", "unlink"}
        THEN [disk |-> d, raised |-> TRUE, result |-> NoResult]
        ELSE LET d2 == Rename(d1, temp_path, storage_path)
                 d3 == _generate_thumbnails_sync(d2, storage_path, file_id, fault, t)
             IN  [disk |-> d3, raised |-> FALSE, result |-> result(d3)]

\* _store_image_streaming without the cleanup of its except clause: the temp file
\* stays when the write or the move fails
StoreImageKeepTemp(d, bytes, extension, u, fault, t) ==
    LET temp_path == TempPath(u, extension)
        d1 == WriteFile(d, temp_path, Raw(bytes), t)
        file_id == SHA256(bytes)
        storage_path == _get_storage_path(file_id, VARIANT_ORIGINAL, extension)
        is_duplicate == Exists(d1, storage_path)
        thumb_path == _get_storage_path(file_id, VARIANT_THUMBNAIL, ".webp")
        web_path == _get_storage_path(file_id, VARIANT_WEB, ".webp")
        result(dd) == StoredFile(file_id, storage_path, extension, Size[bytes],
                                 get_image_dimensions(dd, storage_path), is_duplicate, FALSE)
    IN  IF fault \in {"write", "rename"} \/ (is_duplicate /\ fault = "unlink")
        THEN [disk |-> d1, raised |-> TRUE, result |-> NoResult]
        ELSE IF is_duplicate
        THEN LET d2 == Unlink(d1, temp_path)
                 d3 == IF ~Exists(d2, thumb_path) \/ ~Exists(d2, web_path)
                       THEN _generate_thumbnails_sync(d2, storage_path, file_id, fault, t)
                       ELSE d2
             IN  [disk |-> d3, raised |-> FALSE, result |-> result(d3)]
        ELSE LET d2 == Rename(d1, temp_path, storage_path)
                 d3 == _generate_thumbnails_sync(d2, storage_path, file_id, fault, t)
             IN  [disk |-> d3, raised |-> FALSE, result |-> result(d3)]

\* _store_image_streaming: temp file + sha256, then dedup by the original's path
_store_image_streaming(d, bytes, extension, u, fault, t) ==
    LET temp_path == TempPath(u, extension)
        d1 == WriteFile(d, temp_path, Raw(bytes), t)
        file_id == SHA256(bytes)
        storage_path == _get_storage_path(file_id, VARIANT_ORIGINAL, extension)
        is_duplicate == Exists(d1, storage_path)
        thumb_path == _get_storage_path(file_id, VARIANT_THUMBNAIL, ".webp")
        web_path == _get_storage_path(file_id, VARIANT_WEB, ".webp")
        result(dd) == StoredFile(file_id, storage_path, extension, Size[bytes],
                                 get_image_dimensions(dd, storage_path), is_duplicate, FALSE)
    IN  IF fault = "write"
        THEN \* except: temp_path.unlink(); raise
             [disk |-> d, raised |-> TRUE, result |-> NoResult]
        ELSE IF is_duplicate
        THEN IF fault = "unlink"
             THEN \* temp_path.unlink() raises, and raises again in the handler
                  [disk |-> d1, raised |-> TRUE, result |-> NoResult]
             ELSE LET d2 == Unlink(d1, temp_path)
                      d3 == IF ~Exists(d2, thumb_path) \/ ~Exists(d2, web_path)
                            THEN _generate_thumbnails_sync(d2, storage_path, file_id, fault, t)
                            ELSE d2
                  IN  [disk |-> d3, raised |-> FALSE, result |-> result(d3)]
        ELSE IF fault = "rename"
        THEN \* mkdir or rename raises; except: temp_path.unlink(); raise
             [disk |-> d, raised |-> TRUE, result |-> NoResult]
        ELSE LET d2 == Rename(d1, temp_path, storage_path)
                 d3 == _generate_thumbnails_sync(d2, storage_path, file_id, fault, t)
             IN  [disk |-> d3, raised |-> FALSE, result |-> result(d3)]

\* store_file_streaming: dispatch on the lower-cased suffix
store_file_streaming(d, bytes, original_filename, u, fault, t) ==
    LET suffix == Lower(Suffix[original_filename])
        extension == IF suffix = "" THEN ".bin" ELSE suffix
    IN  IF is_video(extension)
        THEN _store_video_streaming(d, bytes, extension, u, fault, t)
        ELSE _store_image_streaming(d, bytes, extension, u, fault, t)

\* StorageService.get_file_path: a video resolves to its file whatever the variant
get_file_path(file_id, extension, variant, video) ==
    IF video THEN _get_video_path(file_id, extension)
    ELSE _get_storage_path(file_id, variant,
                           IF variant \in {VARIANT_THUMBNAIL, VARIANT_WEB} THEN ".webp" ELSE extension)

\* api/files/files_api.py get_file_path, which names the variants in the singular
HTTP400 == MkPath("HTTP 400", <<>>, <<>>, <<>>, "")
files_get_file_path(file_hash, variant, extension, video) ==
    LET prefix == Slice(file_hash, 0, 2)
        second == Slice(file_hash, 2, 4)
    IN  IF video
        THEN CASE variant \in {"original", "web"} -> MkPath("videos", <<>>, <<>>, file_hash, extension)
               [] variant = "thumbnail" -> MkPath("thumbnails", prefix, second, file_hash, ".webp")
               [] OTHER -> HTTP400
        ELSE CASE variant = "original" -> MkPath("originals", prefix, second, file_hash, extension)
               [] variant = "thumbnail" -> MkPath("thumbnails", prefix, second, file_hash, ".webp")
               [] variant = "web" -> MkPath("web", prefix, second, file_hash, ".webp")
               [] OTHER -> HTTP400

\* regenerate_thumbnails that does not look for the original
RegenerateAlways(d, file_id, extension, fault, t) ==
    [disk |-> _generate_thumbnails_sync(
                  d, _get_storage_path(file_id, VARIANT_ORIGINAL, extension), file_id, fault, t),
     result |-> TRUE]

\* regenerate_thumbnails: False when the original is missing
regenerate_thumbnails(d, file_id, extension, fault, t) ==
    LET original_path == _get_storage_path(file_id, VARIANT_ORIGINAL, extension)
    IN  IF ~Exists(d, original_path)
        THEN [disk |-> d, result |-> FALSE]
        ELSE [disk |-> _generate_thumbnails_sync(d, original_path, file_id, fault, t),
              result |-> TRUE]

\* unlink of the path below this root raises OSError
DeleteFaults == {"none", VARIANT_ORIGINAL, VARIANT_THUMBNAIL, VARIANT_WEB, "videos"}

\* one round of delete_file's loop over the variants
DeleteVariant(acc, file_id, extension, variant, fault) ==
    LET ext == IF variant = VARIANT_ORIGINAL THEN extension ELSE ".webp"
        path == _get_storage_path(file_id, variant, ext)
    IN  IF acc.raised \/ ~Exists(acc.disk, path) THEN acc
        ELSE IF fault = variant THEN [disk |-> acc.disk, raised |-> TRUE]
        ELSE [disk |-> Unlink(acc.disk, path), raised |-> FALSE]

\* delete_file: a video's file, or an image's original, thumbnail and web file
delete_file(d, file_id, extension, video, fault) ==
    IF video
    THEN LET path == _get_video_path(file_id, extension)
         IN  IF ~Exists(d, path) THEN [disk |-> d, raised |-> FALSE]
             ELSE IF fault = "videos" THEN [disk |-> d, raised |-> TRUE]
             ELSE [disk |-> Unlink(d, path), raised |-> FALSE]
    ELSE DeleteVariant(
             DeleteVariant(
                 DeleteVariant([disk |-> d, raised |-> FALSE],
                               file_id, extension, VARIANT_ORIGINAL, fault),
                 file_id, extension, VARIANT_THUMBNAIL, fault),
             file_id, extension, VARIANT_WEB, fault)

\* scripts/regenerate_video_thumbnails.py: where a video's posters go
get_thumbnail_path(file_id) ==
    MkPath("thumbnails", Slice(file_id, 0, 2), Slice(file_id, 2, 4), file_id, ".webp")

get_web_path(file_id) ==
    MkPath("web", Slice(file_id, 0, 2), Slice(file_id, 2, 4), file_id, ".webp")

\* generate_video_thumbnails: ffmpeg writes the poster thumbnail and web poster
generate_video_thumbnails(d, video_path, file_id, t) ==
    WriteFile(WriteFile(d, get_thumbnail_path(file_id), Webp("thumb", d[video_path].data.of), t),
              get_web_path(file_id), Webp("web", d[video_path].data.of), t)

-----------------------------------------------------------------------------
(* SpecStore: the StorageService interface, called on an empty upload directory *)

\* the name uuid4() gives a temp file: one no temp file on disk carries
TempIdsFree(d) == {n \in 1..MaxTemp : \A p \in DOMAIN d : ~(p.root = "temp_" /\ p.stem = UuidHex(n))}
FreshTemp(d) == UuidHex(CHOOSE n \in TempIdsFree(d) : \A m \in TempIdsFree(d) : n <= m)

\* the extension store_file_streaming derives from a file name
ExtensionOf(original_filename) ==
    IF Lower(Suffix[original_filename]) = "" THEN ".bin" ELSE Lower(Suffix[original_filename])

\* the (identity, extension, is_video) triples a caller holds: those of the
\* uploads, stored or not
Targets ==
    {<<SHA256(up[1]), ExtensionOf(up[2]), FALSE>> : up \in {x \in Uploads : ~is_video(ExtensionOf(x[2]))}}
    \cup {<<u, ExtensionOf(up[2]), TRUE>> : u \in Uuids, up \in {x \in Uploads : is_video(ExtensionOf(x[2]))}}

\* what a caller can see of the identity's files before an image is ingested
Before(d, bytes, extension) ==
    [original |-> Exists(d, _get_storage_path(SHA256(bytes), VARIANT_ORIGINAL, extension)),
     thumb |-> Exists(d, _get_storage_path(SHA256(bytes), VARIANT_THUMBNAIL, ".webp")),
     web |-> Exists(d, _get_storage_path(SHA256(bytes), VARIANT_WEB, ".webp"))]

\* the environment can only fail a step that the call takes
StoreFaultApplies(d, bytes, extension, fault) ==
    LET b == Before(d, bytes, extension)
    IN  CASE fault = "none" -> TRUE
          [] fault = "write" -> TRUE
          [] fault = "rename" -> ~is_video(extension) /\ ~b.original
          [] fault = "unlink" -> ~is_video(extension) /\ b.original
          [] fault \in {"thumb_save", "web_save"} ->
                /\ ~is_video(extension)
                /\ bytes \in Decodable
                /\ (~b.original \/ ~b.thumb \/ ~b.web)

DeleteFaultApplies(d, file_id, extension, video, fault) ==
    CASE fault = "none" -> TRUE
      [] fault = "videos" -> video /\ Exists(d, _get_video_path(file_id, extension))
      [] fault = VARIANT_ORIGINAL ->
            ~video /\ Exists(d, _get_storage_path(file_id, VARIANT_ORIGINAL, extension))
      [] fault \in {VARIANT_THUMBNAIL, VARIANT_WEB} ->
            ~video /\ Exists(d, _get_storage_path(file_id, fault, ".webp"))

NoCall == [op |-> "none"]

\* _cleanup_task: None, or the task and the time its current sleep began
NoTask == [running |-> FALSE, sleeping_since |-> 0]
Task(t) == [running |-> TRUE, sleeping_since |-> t]

StoreRecord(bytes, extension, fault, before, r) ==
    [op |-> "store", bytes |-> bytes, extension |-> extension, fault |-> fault,
     before |-> before, raised |-> r.raised, result |-> r.result]

InitCommon ==
    /\ now = 0
    /\ file_hashes = NoDisk
    /\ photos = NoDisk
    /\ albums = {}
    /\ chunks = NoDisk
    /\ cleanup_task = NoTask
    /\ uuid_count = 0
    /\ last = NoCall
    /\ tasks = NoDisk
    /\ admins = NoDisk
    /\ issued = {}

InitStore ==
    /\ disk = NoDisk
    /\ InitCommon

Store(bytes, original_filename, fault) ==
    /\ uuid_count < MaxUuid
    /\ TempIdsFree(disk) # {}
    /\ StoreFaultApplies(disk, bytes, ExtensionOf(original_filename), fault)
    /\ LET extension == ExtensionOf(original_filename)
           u == IF is_video(extension) THEN UuidHex(uuid_count + 1) ELSE FreshTemp(disk)
           r == store_file_streaming(disk, bytes, original_filename, u, fault, now)
       IN  /\ disk' = r.disk
           /\ uuid_count' = IF is_video(extension) THEN uuid_count + 1 ELSE uuid_count
           /\ last' = StoreRecord(bytes, extension, fault, Before(disk, bytes, extension), r)
    /\ UNCHANGED <<admins, issued, tasks, now, file_hashes, photos, albums, chunks, cleanup_task>>

StoreCall == \E up \in Uploads, fault \in StoreFaults : Store(up[1], up[2], fault)

DeleteCall ==
    \E tg \in Targets, fault \in DeleteFaults :
        LET file_id == tg[1]
            extension == tg[2]
            video == tg[3]
            r == delete_file(disk, file_id, extension, video, fault)
        IN  /\ DeleteFaultApplies(disk, file_id, extension, video, fault)
            /\ disk' = r.disk
            /\ last' = [op |-> "delete_file", file_id |-> file_id, extension |-> extension,
                        is_video |-> video, raised |-> r.raised]
             /\ UNCHANGED <<admins, issued, tasks, now, file_hashes, photos, albums, chunks, cleanup_task, uuid_count>>

RegenerateCall ==
    \E tg \in {x \in Targets : ~x[3]}, fault \in {"none", "thumb_save", "web_save"} :
        LET file_id == tg[1]
            extension == tg[2]
            r == regenerate_thumbnails(disk, file_id, extension, fault, now)
        IN  /\ fault # "none" =>
                  /\ Exists(disk, _get_storage_path(file_id, VARIANT_ORIGINAL, extension))
                  /\ disk[_get_storage_path(file_id, VARIANT_ORIGINAL, extension)].data.of \in Decodable
            /\ disk' = r.disk
            /\ last' = [op |-> "regenerate_thumbnails", file_id |-> file_id,
                        extension |-> extension, result |-> r.result]
             /\ UNCHANGED <<admins, issued, tasks, now, file_hashes, photos, albums, chunks, cleanup_task, uuid_count>>

\* scripts/regenerate_video_thumbnails.py main(): the videos that lack a poster
MissingPosters(d) ==
    {p \in DOMAIN d :
        /\ p.root = "videos"
        /\ ~Exists(d, get_thumbnail_path(p.stem)) \/ ~Exists(d, get_web_path(p.stem))}

RECURSIVE RegenerateVideos(_, _, _)
RegenerateVideos(d, todo, t) ==
    IF todo = {} THEN d
    ELSE LET p == CHOOSE q \in todo : TRUE
         IN  RegenerateVideos(
                 IF d[p].data.kind = "raw"
                 THEN generate_video_thumbnails(d, p, p.stem, t)
                 ELSE d,  \* ffmpeg fails on a truncated file: the script prints and goes on
                 todo \ {p}, t)

VideoPosterScript ==
    /\ \E p \in MissingPosters(disk) : disk[p].data.kind = "raw"
    /\ disk' = RegenerateVideos(disk, MissingPosters(disk), now)
    /\ last' = [op |-> "regenerate_video_thumbnails"]
    /\ UNCHANGED <<admins, issued, tasks, now, file_hashes, photos, albums, chunks, cleanup_task, uuid_count>>

NextStore == StoreCall \/ DeleteCall \/ RegenerateCall \/ VideoPosterScript

SpecStore == InitStore /\ [][NextStore]_vars

-----------------------------------------------------------------------------
(* The catalog: FileHash and Photo rows, and the handlers that keep them *)

AlbumIds == {"album1", "album2"}

\* the session of a request: the rows it has read and changed, and whether its
\* commit reaches the database
CommitFaults == {"none", "commit"}

FileHashRow(result) ==
    [storage_path |-> result.storage_path, file_extension |-> result.file_extension,
     reference_count |-> 1]

\* _create_or_update_file_hash, and the same lines of the album handlers:
\* increment the row keyed by the identity, or add one with reference_count = 1
_create_or_update_file_hash(fh, result) ==
    IF result.file_id \in DOMAIN fh
    THEN [fh EXCEPT ![result.file_id].reference_count = @ + 1]
    ELSE [k \in DOMAIN fh \cup {result.file_id} |->
            IF k = result.file_id THEN FileHashRow(result) ELSE fh[k]]

\* POST /upload: store the file, then count the reference (images only)
upload_file(d, fh, bytes, original_filename, u, fault, t) ==
    LET r == store_file_streaming(d, bytes, original_filename, u, fault, t)
    IN  IF r.raised THEN [disk |-> r.disk, file_hashes |-> fh, status |-> 500, stored |-> r]
        ELSE IF ~r.result.is_video
        THEN [disk |-> r.disk, file_hashes |-> _create_or_update_file_hash(fh, r.result),
              status |-> 200, stored |-> r]
        ELSE [disk |-> r.disk, file_hashes |-> fh, status |-> 200, stored |-> r]

\* POST /albums/{album_id}/photos with one file: the file is stored and the
\* FileHash row flushed, then Photo(..., captured_at=stored.captured_at) raises
\* AttributeError (StoredFile has no such field) and get_db rolls the session back
upload_photos_to_album(d, fh, ph, bytes, original_filename, u, fault, t) ==
    LET r == store_file_streaming(d, bytes, original_filename, u, fault, t)
    IN  [disk |-> r.disk, file_hashes |-> fh, photos |-> ph, status |-> 500, stored |-> r]

\* what a delete handler notes for a row whose count reached 0
FileInfo(fh, ph, photo_id) ==
    [file_id |-> ph[photo_id].file_hash,
     extension |-> fh[ph[photo_id].file_hash].file_extension,
     is_video |-> ph[photo_id].is_video]

\* the loop of the delete handlers over the photos they fetched: decrement the
\* row of each, and note the file when its count is <= 0
RECURSIVE Decrement(_, _, _, _)
Decrement(fh, ph, todo, files) ==
    IF todo = {} THEN [file_hashes |-> fh, files_to_delete |-> files]
    ELSE LET photo_id == CHOOSE x \in todo : \A y \in todo : x <= y
             h == ph[photo_id].file_hash
             fh1 == [fh EXCEPT ![h].reference_count = @ - 1]
         IN  Decrement(fh1, ph, todo \ {photo_id},
                       IF fh1[h].reference_count <= 0
                       THEN files \cup {FileInfo(fh, ph, photo_id)}
                       ELSE files)

\* db.delete of the photos and of the rows whose files were noted
RemoveRows(f, keys) == [k \in DOMAIN f \ keys |-> f[k]]

\* the trailing loop of the delete handlers: delete_file for every noted file,
\* each in its own try/except
RECURSIVE DeleteFiles(_, _, _, _)
DeleteFiles(d, files, fault, failed) ==
    IF files = {} THEN [disk |-> d, failed |-> failed]
    ELSE LET f == CHOOSE x \in files : TRUE
             r == delete_file(d, f.file_id, f.extension, f.is_video, fault)
         IN  DeleteFiles(r.disk, files \ {f}, fault,
                         IF r.raised THEN failed \cup {f} ELSE failed)

\* the order in which files go first: delete_file for every identity that reached 0,
\* and the rows are removed only if no delete_file raised
DeleteRowsFilesFirst(d, fh, ph, selected, cfault, dfault) ==
    LET dec == Decrement(fh, ph, selected, {})
        gone == {f.file_id : f \in dec.files_to_delete}
        del == DeleteFiles(d, dec.files_to_delete, dfault, {})
    IN  IF del.failed # {} \/ cfault = "commit"
        THEN [disk |-> del.disk, file_hashes |-> fh, photos |-> ph, status |-> 500,
              committed |-> FALSE, zero |-> dec.files_to_delete,
              invoked |-> dec.files_to_delete, failed |-> del.failed]
        ELSE [disk |-> del.disk,
              file_hashes |-> RemoveRows(dec.file_hashes, gone),
              photos |-> RemoveRows(ph, selected),
              status |-> 204, committed |-> TRUE,
              zero |-> dec.files_to_delete, invoked |-> dec.files_to_delete,
              failed |-> del.failed]

\* the common body of delete_photo, bulk_delete_photos and delete_album with
\* delete_photos=true: decrement, delete the rows, commit, then delete the files
DeleteRows(d, fh, ph, selected, cfault, dfault) ==
    LET dec == Decrement(fh, ph, selected, {})
        gone == {f.file_id : f \in dec.files_to_delete}
    IN  IF cfault = "commit"
        THEN \* db.commit() raises: the session is rolled back and the handler ends
             [disk |-> d, file_hashes |-> fh, photos |-> ph, status |-> 500,
              committed |-> FALSE, zero |-> dec.files_to_delete, invoked |-> {}, failed |-> {}]
        ELSE LET del == DeleteFiles(d, dec.files_to_delete, dfault, {})
             IN  [disk |-> del.disk,
                  file_hashes |-> RemoveRows(dec.file_hashes, gone),
                  photos |-> RemoveRows(ph, selected),
                  status |-> 204, committed |-> TRUE,
                  zero |-> dec.files_to_delete, invoked |-> dec.files_to_delete,
                  failed |-> del.failed]

\* DELETE /albums/{album_id}/photos/{photo_id}
delete_photo(d, fh, ph, album_id, photo_id, cfault, dfault) ==
    DeleteRows(d, fh, ph, {photo_id}, cfault, dfault)

\* POST /albums/{album_id}/photos/bulk-delete
bulk_delete_photos(d, fh, ph, album_id, photo_ids, cfault, dfault) ==
    DeleteRows(d, fh, ph, {x \in photo_ids \cap DOMAIN ph : ph[x].album_id = album_id},
               cfault, dfault)

InAlbum(ph, album_id) == {x \in DOMAIN ph : ph[x].album_id = album_id}

\* DELETE /albums/{album_id}: with delete_photos the photos go with their files,
\* without it they stay, unassociated
delete_album(d, fh, ph, album_id, delete_photos, cfault, dfault) ==
    IF delete_photos
    THEN DeleteRows(d, fh, ph, InAlbum(ph, album_id), cfault, dfault)
    ELSE IF cfault = "commit"
    THEN [disk |-> d, file_hashes |-> fh, photos |-> ph, status |-> 500,
          committed |-> FALSE, zero |-> {}, invoked |-> {}, failed |-> {}]
    ELSE [disk |-> d, file_hashes |-> fh,
          photos |-> [x \in DOMAIN ph |->
                        IF ph[x].album_id = album_id
                        THEN [ph[x] EXCEPT !.album_id = "NULL"] ELSE ph[x]],
          status |-> 204, committed |-> TRUE, zero |-> {}, invoked |-> {}, failed |-> {}]

-----------------------------------------------------------------------------
(* Spec: the handlers, on a database and an upload directory that persist *)

\* The database and the upload directory outlive the process (lifespan cleans
\* "orphaned temp files from previous runs"; alembic migrates existing rows).
\* Photo rows cannot come from the upload handlers of this version (see
\* upload_photos_to_album), so the rows an earlier run left are part of Init:
\* any subset of the photos below, each with its FileHash row counting the
\* photos that reference it and its files on disk.
SeedVideoId(n) == <<"7", "7", "0", HexChars[n + 1]>>
SeedIsVideo(n) == n % 3 = 0
SeedHash(n) == IF SeedIsVideo(n) THEN SeedVideoId(n) ELSE SHA256("jpegA")
SeedExtension(n) == IF SeedIsVideo(n) THEN ".mov" ELSE ".jpg"
SeedAlbum(n) == IF n % 4 \in {1, 2} THEN "album1" ELSE "album2"

SeedPhotos(S) ==
    [n \in S |-> [album_id |-> SeedAlbum(n), file_hash |-> SeedHash(n), is_video |-> SeedIsVideo(n)]]

SeedPath(n) ==
    IF SeedIsVideo(n) THEN _get_video_path(SeedHash(n), SeedExtension(n))
    ELSE _get_storage_path(SeedHash(n), VARIANT_ORIGINAL, SeedExtension(n))

SeedFileHashes(S) ==
    [h \in {SeedHash(n) : n \in S} |->
        LET n == CHOOSE m \in S : SeedHash(m) = h
        IN  [storage_path |-> SeedPath(n), file_extension |-> SeedExtension(n),
             reference_count |-> Cardinality({m \in S : SeedHash(m) = h})]]

SeedFiles(S) ==
    {SeedPath(n) : n \in S}
    \cup {_get_storage_path(SeedHash(n), v, ".webp") :
            n \in {m \in S : ~SeedIsVideo(m)}, v \in {VARIANT_THUMBNAIL, VARIANT_WEB}}

SeedDisk(S) ==
    [p \in SeedFiles(S) |->
        [data |-> CASE p.root = "videos" -> Raw("movV")
                    [] p.root = VARIANT_ORIGINAL -> Raw("jpegA")
                    [] p.root = VARIANT_THUMBNAIL -> Webp("thumb", "jpegA")
                    [] p.root = VARIANT_WEB -> Webp("web", "jpegA"),
         mtime |-> 0]]

Init ==
    /\ \E S \in SUBSET (1..MaxPhotos) :
          /\ photos = SeedPhotos(S)
          /\ file_hashes = SeedFileHashes(S)
          /\ disk = SeedDisk(S)
    /\ albums = AlbumIds
    /\ now = 0
    /\ chunks = NoDisk
    /\ cleanup_task = NoTask
    /\ uuid_count = 0
    /\ last = NoCall
    /\ tasks = NoDisk
    /\ admins = NoDisk
    /\ issued = {}

\* the identity an upload would get, before it is stored
WouldCount(fh, bytes) ==
    SHA256(bytes) \in DOMAIN fh => fh[SHA256(bytes)].reference_count < MaxRefs

\* the storage faults followed through the handlers; SpecStore follows them all
HandlerFaults == {"none", "write"}
\* the uploads followed through the handlers: one image under two extensions, one video
HandlerUploads == {up \in Uploads : up[2] \in {"IMG_0001.jpg", "scan.png", "clip.mov"}}

UploadFile ==
    \E up \in HandlerUploads, fault \in HandlerFaults :
        LET extension == ExtensionOf(up[2])
            u == IF is_video(extension) THEN UuidHex(uuid_count + 1) ELSE FreshTemp(disk)
            r == upload_file(disk, file_hashes, up[1], up[2], u, fault, now)
        IN  /\ is_video(extension) => uuid_count < MaxUuid
            /\ TempIdsFree(disk) # {}
            /\ StoreFaultApplies(disk, up[1], extension, fault)
            /\ WouldCount(file_hashes, up[1])
            /\ disk' = r.disk
            /\ file_hashes' = r.file_hashes
            /\ uuid_count' = IF is_video(extension) THEN uuid_count + 1 ELSE uuid_count
            /\ last' = [op |-> "upload_file", status |-> r.status]
            /\ UNCHANGED <<admins, issued, tasks, now, photos, albums, chunks, cleanup_task>>

UploadPhotosToAlbum ==
    \E album_id \in albums, up \in HandlerUploads, fault \in HandlerFaults :
        LET extension == ExtensionOf(up[2])
            u == IF is_video(extension) THEN UuidHex(uuid_count + 1) ELSE FreshTemp(disk)
            r == upload_photos_to_album(disk, file_hashes, photos, up[1], up[2], u, fault, now)
        IN  /\ is_video(extension) => uuid_count < MaxUuid
            /\ TempIdsFree(disk) # {}
            /\ StoreFaultApplies(disk, up[1], extension, fault)
            /\ disk' = r.disk
            /\ file_hashes' = r.file_hashes
            /\ photos' = r.photos
            /\ uuid_count' = IF is_video(extension) THEN uuid_count + 1 ELSE uuid_count
            /\ last' = [op |-> "upload_photos_to_album", status |-> r.status]
            /\ UNCHANGED <<admins, issued, tasks, now, albums, chunks, cleanup_task>>

DeleteRecord(op, r) ==
    [op |-> op, status |-> r.status, committed |-> r.committed, zero |-> r.zero,
     invoked |-> r.invoked, failed |-> r.failed]

\* a delete_file fault is one that some delete_file of the request runs into
Deleted(r, dfault) ==
    /\ disk' = r.disk
    /\ file_hashes' = r.file_hashes
    /\ photos' = r.photos
    /\ dfault # "none" => r.failed # {}

DeletePhoto ==
    \E album_id \in albums, photo_id \in DOMAIN photos,
       cfault \in CommitFaults, dfault \in DeleteFaults :
        LET r == delete_photo(disk, file_hashes, photos, album_id, photo_id, cfault, dfault)
        IN  /\ photos[photo_id].album_id = album_id
            /\ Deleted(r, dfault)
            /\ last' = DeleteRecord("delete_photo", r)
            /\ UNCHANGED <<admins, issued, tasks, now, albums, chunks, cleanup_task, uuid_count>>

BulkDeletePhotos ==
    \E album_id \in albums, photo_ids \in SUBSET (DOMAIN photos),
       cfault \in CommitFaults, dfault \in DeleteFaults :
        LET r == bulk_delete_photos(disk, file_hashes, photos, album_id, photo_ids, cfault, dfault)
        IN  /\ photo_ids # {}
            /\ \E x \in photo_ids : photos[x].album_id = album_id
            /\ Deleted(r, dfault)
            /\ last' = DeleteRecord("bulk_delete_photos", r)
            /\ UNCHANGED <<admins, issued, tasks, now, albums, chunks, cleanup_task, uuid_count>>

DeleteAlbum ==
    \E album_id \in albums, delete_photos \in BOOLEAN,
       cfault \in CommitFaults, dfault \in DeleteFaults :
        LET r == delete_album(disk, file_hashes, photos, album_id, delete_photos, cfault, dfault)
        IN  /\ Deleted(r, dfault)
            /\ albums' = IF r.committed THEN albums \ {album_id} ELSE albums
            /\ last' = DeleteRecord("delete_album", r)
            /\ UNCHANGED <<admins, issued, tasks, now, chunks, cleanup_task, uuid_count>>

\* POST /albums
CreateAlbum ==
    \E album_id \in AlbumIds \ albums :
        /\ albums' = albums \cup {album_id}
        /\ last' = [op |-> "create_album", status |-> 201]
        /\ UNCHANGED <<admins, issued, tasks, disk, now, file_hashes, photos, chunks, cleanup_task, uuid_count>>

Next ==
    \/ UploadFile
    \/ UploadPhotosToAlbum
    \/ DeletePhoto
    \/ BulkDeletePhotos
    \/ DeleteAlbum
    \/ CreateAlbum

Spec == Init /\ [][Next]_vars

-----------------------------------------------------------------------------
(* SpecSweep: temporary artifacts, the clock and the sweeps *)

\* time.time() - 3600, time.time() - 86400, and the sleep of periodic_cleanup
ONE_HOUR == 3600
ONE_DAY == 86400
interval_seconds == 1800

\* the clock readings followed (seconds since the first start): each threshold is
\* met exactly and passed by one second
Instants == {0, ONE_HOUR, ONE_HOUR + 1, ONE_DAY, ONE_DAY + 1}

\* ZIP files in /tmp: NamedTemporaryFile(suffix=".zip") names them tmp<random>.zip,
\* and anything else may leave a .zip there
ZipNames == {"tmpk3x9", "export"}
TmpPrefixed == {"tmpk3x9"}
ZipPath(name) == MkPath("/tmp", <<>>, <<>>, name, ".zip")
ZipPatterns == <<"/tmp/*.zip", "/tmp/tmp*.zip">>

\* glob.glob(pattern)
Glob(d, pattern) ==
    CASE pattern = "/tmp/*.zip" -> {p \in DOMAIN d : p.root = "/tmp" /\ p.ext = ".zip"}
      [] pattern = "/tmp/tmp*.zip" ->
            {p \in DOMAIN d : p.root = "/tmp" /\ p.ext = ".zip" /\ p.stem \in TmpPrefixed}
      [] pattern = "temp_*" -> {p \in DOMAIN d : p.root = "temp_"}

\* os.path.getsize
getsize(d, p) ==
    CASE d[p].data.kind = "zip" -> 7
      [] d[p].data.kind = "partial" -> 1
      [] OTHER -> Size[d[p].data.of]

\* the files of a session directory, metadata.json and chunk_<index>, and their sizes
SessionFileSize(name) == IF name = "metadata.json" THEN 1 ELSE 4
ChunkIndexes == {0}
\* f"chunk_{chunk_index:06d}"
ChunkName(chunk_index) == IF chunk_index = 0 THEN "chunk_000000" ELSE "chunk_000001"

RECURSIVE SumOver(_, _)
SumOver(f, S) ==
    IF S = {} THEN 0
    ELSE LET x == CHOOSE y \in S : TRUE IN f[x] + SumOver(f, S \ {x})

\* sum(f.stat().st_size for f in upload_session_dir.rglob("*") if f.is_file())
dir_size(ch, upload_id) == SumOver(ch[upload_id].files, DOMAIN ch[upload_id].files)

\* the sweep that counts what it finds and unlinks nothing
CountOnly(d, hit) ==
    [disk |-> d,
     count |-> Cardinality(hit),
     size |-> SumOver([p \in hit |-> getsize(d, p)], hit),
     removed |-> hit]

\* the body of a for-loop over glob.glob(pattern), over the files that pass its test:
\* size = getsize; unlink; count += 1; total += size
UnlinkAll(d, hit) ==
    [disk |-> [q \in DOMAIN d \ hit |-> d[q]],
     count |-> Cardinality(hit),
     size |-> SumOver([p \in hit |-> getsize(d, p)], hit),
     removed |-> hit]

\* the body of the loop over chunks_dir.iterdir(), over the sessions that pass its
\* test: dir_size; shutil.rmtree; count += 1; total += dir_size
RmtreeAll(ch, hit) ==
    [chunks |-> [u \in DOMAIN ch \ hit |-> ch[u]],
     count |-> Cardinality(hit),
     size |-> SumOver([u \in hit |-> dir_size(ch, u)], hit),
     removed |-> hit]

\* the sweep with a session threshold of one hour
SessionExpiredHourly(mtime, t) == mtime < t - ONE_HOUR

\* os.path.getmtime(filepath) < one_hour_ago ; dir_mtime < one_day_ago
FileExpired(mtime, t) == mtime < t - ONE_HOUR
SessionExpired(mtime, t) == mtime < t - ONE_DAY

Old(d, pattern, t) == {p \in Glob(d, pattern) : FileExpired(d[p].mtime, t)}

\* os.unlink and shutil.rmtree are taken to succeed on what the sweep lists
cleanup_old_temp_files(d, ch, t) ==
    LET z1 == UnlinkAll(d, Old(d, ZipPatterns[1], t))
        z2 == UnlinkAll(z1.disk, Old(z1.disk, ZipPatterns[2], t))
        tf == UnlinkAll(z2.disk, Old(z2.disk, "temp_*", t))
        cs == RmtreeAll(ch, {u \in DOMAIN ch : SessionExpired(ch[u].mtime, t)})
    IN  [disk |-> tf.disk, chunks |-> cs.chunks,
         cleaned_count |-> z1.count + z2.count + tf.count + cs.count,
         cleaned_size |-> z1.size + z2.size + tf.size + cs.size,
         removed |-> [files |-> z1.removed \cup z2.removed \cup tf.removed,
                      sessions |-> cs.removed]]

\* POST /system/cleanup/downloads
cleanup_download_temp_files(d) ==
    LET z1 == UnlinkAll(d, Glob(d, ZipPatterns[1]))
        z2 == UnlinkAll(z1.disk, Glob(z1.disk, ZipPatterns[2]))
    IN  [disk |-> z2.disk, cleaned_count |-> z1.count + z2.count,
         cleaned_bytes |-> z1.size + z2.size,
         removed |-> [files |-> z1.removed \cup z2.removed, sessions |-> {}]]

\* POST /system/cleanup/uploads
cleanup_upload_temp_files(d, ch) ==
    LET tf == UnlinkAll(d, Glob(d, "temp_*"))
        cs == RmtreeAll(ch, DOMAIN ch)
    IN  [disk |-> tf.disk, chunks |-> cs.chunks,
         cleaned_count |-> tf.count + cs.count,
         cleaned_bytes |-> tf.size + cs.size,
         removed |-> [files |-> tf.removed, sessions |-> cs.removed]]

\* what a call of cleanup_old_temp_files returned, and what the call before it
\* returned when that was a call of cleanup_old_temp_files too
NoSweep == [at |-> -1, cleaned_count |-> 0]
SweepRecord(r, t, before) ==
    [op |-> "cleanup_old_temp_files", at |-> t, cleaned_count |-> r.cleaned_count,
     cleaned_size |-> r.cleaned_size, removed |-> r.removed,
     previous |-> IF before.op = "cleanup_old_temp_files"
                  THEN [at |-> before.at, cleaned_count |-> before.cleaned_count]
                  ELSE NoSweep]

Running == cleanup_task.running

InitSweep ==
    /\ disk = NoDisk
    /\ InitCommon

\* lifespan, up to the yield: the startup sweep, then start_cleanup_task; the
\* periodic task starts its first sleep
Startup ==
    LET r == cleanup_old_temp_files(disk, chunks, now)
    IN  /\ ~Running
        /\ disk' = r.disk
        /\ chunks' = r.chunks
        /\ cleanup_task' = Task(now)
        /\ last' = SweepRecord(r, now, last)
        /\ UNCHANGED <<admins, issued, tasks, now, file_hashes, photos, albums, uuid_count>>

\* lifespan, after the yield: stop_cleanup_task
Shutdown ==
    /\ Running
    /\ cleanup_task' = NoTask
    /\ last' = [op |-> "stop_cleanup_task"]
    /\ UNCHANGED <<admins, issued, tasks, disk, now, file_hashes, photos, albums, chunks, uuid_count>>

\* one turn of the loop of periodic_cleanup: the sleep has lasted interval_seconds or
\* longer, the sweep runs, the next sleep starts
PeriodicCleanup ==
    LET r == cleanup_old_temp_files(disk, chunks, now)
    IN  /\ Running
        /\ now >= cleanup_task.sleeping_since + interval_seconds
        /\ disk' = r.disk
        /\ chunks' = r.chunks
        /\ cleanup_task' = Task(now)
        /\ last' = SweepRecord(r, now, last)
        /\ UNCHANGED <<admins, issued, tasks, now, file_hashes, photos, albums, uuid_count>>

CleanupDownloads ==
    LET r == cleanup_download_temp_files(disk)
    IN  /\ Running
        /\ disk' = r.disk
        /\ last' = [op |-> "cleanup_download_temp_files", at |-> now,
                    cleaned_count |-> r.cleaned_count, cleaned_size |-> r.cleaned_bytes,
                    removed |-> r.removed]
        /\ UNCHANGED <<admins, issued, tasks, now, file_hashes, photos, albums, chunks, cleanup_task, uuid_count>>

CleanupUploads ==
    LET r == cleanup_upload_temp_files(disk, chunks)
    IN  /\ Running
        /\ disk' = r.disk
        /\ chunks' = r.chunks
        /\ last' = [op |-> "cleanup_upload_temp_files", at |-> now,
                    cleaned_count |-> r.cleaned_count, cleaned_size |-> r.cleaned_bytes,
                    removed |-> r.removed]
        /\ UNCHANGED <<admins, issued, tasks, now, file_hashes, photos, albums, cleanup_task, uuid_count>>

\* an album download writes its ZIP to /tmp and the file is left behind
DownloadZip ==
    \E name \in ZipNames :
        /\ Running
        /\ ~Exists(disk, ZipPath(name))
        /\ disk' = WriteFile(disk, ZipPath(name), [kind |-> "zip", of |-> name], now)
        /\ last' = [op |-> "download"]
        /\ UNCHANGED <<admins, issued, tasks, now, file_hashes, photos, albums, chunks, cleanup_task, uuid_count>>

\* an ingestion is cut off while it streams to its temp file
InterruptedUpload ==
    /\ Running
    /\ TempIdsFree(disk) # {}
    /\ disk' = WriteFile(disk, TempPath(FreshTemp(disk), ".jpg"), Partial("jpegA"), now)
    /\ last' = [op |-> "interrupted_upload"]
    /\ UNCHANGED <<admins, issued, tasks, now, file_hashes, photos, albums, chunks, cleanup_task, uuid_count>>

SessionsFree(ch) == (1..MaxSessions) \ DOMAIN ch

\* POST /{album_id}/upload/init: mkdir chunks/<upload_id>, write metadata.json
init_chunked_upload(ch, upload_id, t) ==
    [u \in DOMAIN ch \cup {upload_id} |->
        IF u = upload_id
        THEN [mtime |-> t, files |-> [f \in {"metadata.json"} |-> SessionFileSize(f)]]
        ELSE ch[u]]

\* POST /{album_id}/upload/{upload_id}/chunk: a chunk file that is new in the
\* directory changes the directory's modification time, one written again does not
upload_chunk(ch, upload_id, chunk_index, t) ==
    LET name == ChunkName(chunk_index)
        files == ch[upload_id].files
    IN  [ch EXCEPT ![upload_id] =
            [mtime |-> IF name \in DOMAIN files THEN ch[upload_id].mtime ELSE t,
             files |-> [f \in DOMAIN files \cup {name} |->
                            IF f = name THEN SessionFileSize(name) ELSE files[f]]]]

InitChunkedUpload ==
    /\ Running
    /\ SessionsFree(chunks) # {}
    /\ LET upload_id == CHOOSE n \in SessionsFree(chunks) : \A m \in SessionsFree(chunks) : n <= m
       IN  chunks' = init_chunked_upload(chunks, upload_id, now)
    /\ last' = [op |-> "init_chunked_upload"]
    /\ UNCHANGED <<admins, issued, tasks, disk, now, file_hashes, photos, albums, cleanup_task, uuid_count>>

UploadChunk ==
    \E upload_id \in DOMAIN chunks, chunk_index \in ChunkIndexes :
        /\ Running
        /\ chunks' = upload_chunk(chunks, upload_id, chunk_index, now)
        /\ last' = [op |-> "upload_chunk"]
        /\ UNCHANGED <<admins, issued, tasks, disk, now, file_hashes, photos, albums, cleanup_task, uuid_count>>

\* time passes
Tick ==
    \E t \in Instants :
        /\ t > now
        /\ now' = t
        /\ UNCHANGED <<admins, issued, tasks, disk, file_hashes, photos, albums, chunks, cleanup_task, uuid_count, last>>

NextSweep ==
    \/ Startup
    \/ Shutdown
    \/ PeriodicCleanup
    \/ CleanupDownloads
    \/ CleanupUploads
    \/ DownloadZip
    \/ InterruptedUpload
    \/ InitChunkedUpload
    \/ UploadChunk
    \/ Tick

SpecSweep == InitSweep /\ [][NextSweep]_vars

-----------------------------------------------------------------------------
(* SpecTimedStore: image ingestions and deletions, before and after an hour passes *)

Later ==
    /\ now = 0
    /\ now' = ONE_HOUR
    /\ UNCHANGED <<admins, issued, disk, file_hashes, photos, albums, chunks, cleanup_task, uuid_count,
                   last, tasks>>

StoreImageCall ==
    \E up \in {x \in Uploads : ~is_video(ExtensionOf(x[2]))}, fault \in StoreFaults :
        Store(up[1], up[2], fault)

NextTimedStore ==
    \/ StoreImageCall
    \/ DeleteCall
    \/ Later

SpecTimedStore == InitStore /\ [][NextTimedStore]_vars

-----------------------------------------------------------------------------
(* SpecPath: get_file_path applied to every identity, extension, variant and kind *)

PathVariants == {VARIANT_ORIGINAL, VARIANT_THUMBNAIL, VARIANT_WEB}
PathIdentities == {SHA256(b) : b \in Bytes} \cup Uuids
PathExtensions == {ExtensionOf(f) : f \in FileNames} \cup {".webp"}

\* the name under which the file-serving API knows a variant directory
ServedName(variant) ==
    CASE variant = VARIANT_ORIGINAL -> "original"
      [] variant = VARIANT_THUMBNAIL -> "thumbnail"
      [] variant = VARIANT_WEB -> "web"

InitPath ==
    /\ disk = NoDisk
    /\ now = 0
    /\ file_hashes = NoDisk
    /\ photos = NoDisk
    /\ albums = {}
    /\ chunks = NoDisk
    /\ cleanup_task = NoTask
    /\ uuid_count = 0
    /\ tasks = NoDisk
    /\ admins = NoDisk
    /\ issued = {}
    /\ \E file_id \in PathIdentities, extension \in PathExtensions,
          variant \in PathVariants, video \in BOOLEAN :
            last = [op |-> "args", file_id |-> file_id, extension |-> extension,
                    variant |-> variant, is_video |-> video]

ResolvePath ==
    /\ last.op = "args"
    /\ last' = [op |-> "get_file_path", file_id |-> last.file_id,
                extension |-> last.extension, variant |-> last.variant,
                is_video |-> last.is_video,
                path |-> get_file_path(last.file_id, last.extension, last.variant, last.is_video),
                served |-> files_get_file_path(last.file_id, ServedName(last.variant),
                                               last.extension, last.is_video)]
    /\ UNCHANGED <<admins, issued, tasks, disk, now, file_hashes, photos, albums, chunks, cleanup_task, uuid_count>>

NextPath == ResolvePath

SpecPath == InitPath /\ [][NextPath]_vars

-----------------------------------------------------------------------------
(* SpecTasks: the coroutines of one event loop, ingestions, chunked-upload         *)
(* requests and the periodic sweep, interleaved at their awaits                    *)

\* the clock readings followed here: the start, and one second past a day, when
\* both thresholds are passed
TaskInstants == {0, ONE_DAY + 1}

\* what a chunked session carries: metadata["filename"], and the bytes of chunk 0
SessionUpload == <<"jpegA", "IMG_0001.jpg">>

TaskIds == 1..MaxTasks
NewTask == Cardinality(DOMAIN tasks) + 1

NoPath == MkPath("", <<>>, <<>>, <<>>, "")

\* a coroutine: the handler it runs, the await it stands at, its arguments and
\* locals, how it ended (status 0: not yet), and the coroutines it started next to
TaskRecord(op, pc, bytes, extension, u, path, upload_id, status, error) ==
    [op |-> op, pc |-> pc, bytes |-> bytes, extension |-> extension, u |-> u,
     path |-> path, upload_id |-> upload_id, status |-> status, error |-> error,
     result |-> NoResult, concurrent |-> {}]

\* a request arrives: its coroutine starts next to those that have not ended
Spawn(k) ==
    [t \in DOMAIN tasks \cup {NewTask} |->
        IF t = NewTask
        THEN [k EXCEPT !.concurrent = {x \in DOMAIN tasks : tasks[x].pc # "ended"}]
        ELSE tasks[t]]

Ended(k, status, error) == [k EXCEPT !.pc = "ended", !.status = status, !.error = error]

\* _store_image_streaming from sha256.hexdigest() to temp_path.unlink() or
\* temp_path.rename(storage_path): no await in between. Both raise FileNotFoundError
\* when the temp file is gone, and the handler re-raises
DeduplicateOrMove(d, bytes, extension, u) ==
    LET temp_path == TempPath(u, extension)
        file_id == SHA256(bytes)
        storage_path == _get_storage_path(file_id, VARIANT_ORIGINAL, extension)
        is_duplicate == Exists(d, storage_path)
        thumb_path == _get_storage_path(file_id, VARIANT_THUMBNAIL, ".webp")
        web_path == _get_storage_path(file_id, VARIANT_WEB, ".webp")
    IN  IF ~Exists(d, temp_path)
        THEN [disk |-> d, raised |-> TRUE, is_duplicate |-> is_duplicate, thumbnails |-> FALSE]
        ELSE IF is_duplicate
        THEN [disk |-> Unlink(d, temp_path), raised |-> FALSE, is_duplicate |-> TRUE,
              thumbnails |-> ~Exists(d, thumb_path) \/ ~Exists(d, web_path)]
        ELSE [disk |-> Rename(d, temp_path, storage_path), raised |-> FALSE,
              is_duplicate |-> FALSE, thumbnails |-> TRUE]

\* complete_chunked_upload that leaves the session directory where it is
RmtreeNothing(ch, upload_id) == ch

\* shutil.rmtree(upload_dir)
rmtree(ch, upload_id) == [u \in DOMAIN ch \ {upload_id} |-> ch[u]]

\* complete_chunked_upload writing upload_dir / f"assembled{extension}"
assemble(ch, upload_id, extension, t) ==
    LET name == "assembled"
        files == ch[upload_id].files
    IN  [ch EXCEPT ![upload_id] =
            [mtime |-> IF name \in DOMAIN files THEN ch[upload_id].mtime ELSE t,
             files |-> [f \in DOMAIN files \cup {name} |->
                            IF f = name THEN SessionFileSize(name) ELSE files[f]]]]

\* a session whose id was drawn before the ids of the pool, and which has just
\* received its chunk
SeedSession == 0
SeedChunks == upload_chunk(init_chunked_upload(NoDisk, SeedSession, 0), SeedSession, 0, 0)

\* the application has started: lifespan ran its sweep and started the periodic
\* task, and one chunked upload is under way
InitTasks ==
    /\ disk = NoDisk
    /\ now = 0
    /\ file_hashes = NoDisk
    /\ photos = NoDisk
    /\ albums = {}
    /\ chunks = SeedChunks
    /\ cleanup_task = Task(0)
    /\ uuid_count = 0
    /\ last = NoCall
    /\ tasks = NoDisk
    /\ admins = NoDisk
    /\ issued = {}

\* store_file_streaming up to its first await inside the loop: the file the stream
\* goes to is open, "wb", and holds what was written so far. An image goes to
\* temp_<uuid><ext>, a video to videos/<uuid><ext>
BeginStore ==
    \E up \in HandlerUploads :
        LET extension == ExtensionOf(up[2])
            u == UuidHex(uuid_count + 1)
            path == IF is_video(extension) THEN _get_video_path(u, extension)
                    ELSE TempPath(u, extension)
        IN  /\ NewTask \in TaskIds
            /\ uuid_count < MaxUuid
            /\ disk' = WriteFile(disk, path, Partial(up[1]), now)
            /\ uuid_count' = uuid_count + 1
            /\ tasks' = Spawn(TaskRecord("store_file_streaming", "streaming", up[1],
                                         extension, u, path, 0, 0, ""))
            /\ UNCHANGED <<admins, issued, now, file_hashes, photos, albums, chunks, cleanup_task, last>>

\* _store_image_streaming: the rest of the stream goes through the open handle,
\* then the hash, the duplicate test and the unlink or the rename
StreamImage ==
    \E t \in DOMAIN tasks :
        LET k == tasks[t]
            file_id == SHA256(k.bytes)
            storage_path == _get_storage_path(file_id, VARIANT_ORIGINAL, k.extension)
            d1 == IF Exists(disk, k.path) THEN WriteFile(disk, k.path, Raw(k.bytes), now) ELSE disk
            r == DeduplicateOrMove(d1, k.bytes, k.extension, k.u)
            stored == StoredFile(file_id, storage_path, k.extension, Size[k.bytes],
                                 get_image_dimensions(r.disk, storage_path), r.is_duplicate, FALSE)
        IN  /\ k.op = "store_file_streaming" /\ k.pc = "streaming" /\ ~is_video(k.extension)
            /\ disk' = r.disk
            /\ tasks' = [tasks EXCEPT ![t] =
                            IF r.raised THEN Ended(k, 500, "FileNotFoundError")
                            ELSE IF r.thumbnails THEN [k EXCEPT !.pc = "thumbnails", !.result = stored]
                            ELSE [Ended(k, 200, "") EXCEPT !.result = stored]]
            /\ UNCHANGED <<admins, issued, now, file_hashes, photos, albums, chunks, cleanup_task, uuid_count, last>>

\* await self._generate_thumbnails(...), get_image_dimensions, return StoredFile
GenerateThumbnails ==
    \E t \in DOMAIN tasks :
        LET k == tasks[t]
            storage_path == k.result.storage_path
            d1 == _generate_thumbnails_sync(disk, storage_path, k.result.file_id, "none", now)
            dims == get_image_dimensions(d1, storage_path)
        IN  /\ k.pc = "thumbnails"
            /\ disk' = d1
            /\ tasks' = [tasks EXCEPT ![t] =
                            [Ended(k, 200, "") EXCEPT !.result.width = dims[1],
                                                      !.result.height = dims[2]]]
            /\ UNCHANGED <<admins, issued, now, file_hashes, photos, albums, chunks, cleanup_task, uuid_count, last>>

\* _store_video_streaming: the rest of the stream, then return StoredFile
StreamVideo ==
    \E t \in DOMAIN tasks :
        LET k == tasks[t]
        IN  /\ k.op = "store_file_streaming" /\ k.pc = "streaming" /\ is_video(k.extension)
            /\ disk' = WriteFile(disk, k.path, Raw(k.bytes), now)
            /\ tasks' = [tasks EXCEPT ![t] =
                            [Ended(k, 200, "") EXCEPT
                                !.result = StoredFile(k.u, k.path, k.extension, Size[k.bytes],
                                                      <<0, 0>>, FALSE, TRUE)]]
            /\ UNCHANGED <<admins, issued, now, file_hashes, photos, albums, chunks, cleanup_task, uuid_count, last>>

\* the client goes away while the stream is read: the coroutine is cancelled at
\* its await. CancelledError is not an Exception, so no handler of the store runs,
\* and the file that was open stays as it is
Abort ==
    \E t \in DOMAIN tasks :
        LET k == tasks[t]
        IN  /\ k.op = "store_file_streaming" /\ k.pc = "streaming"
            /\ tasks' = [tasks EXCEPT ![t] = Ended(k, 499, "CancelledError")]
            /\ UNCHANGED <<admins, issued, disk, now, file_hashes, photos, albums, chunks, cleanup_task,
                           uuid_count, last>>

\* POST /{album_id}/upload/init, for an album that exists
InitChunkedSession ==
    /\ uuid_count < MaxUuid
    /\ chunks' = init_chunked_upload(chunks, uuid_count + 1, now)
    /\ uuid_count' = uuid_count + 1
    /\ UNCHANGED <<admins, issued, tasks, disk, now, file_hashes, photos, albums, cleanup_task, last>>

\* the session ids that clients send: those of the sessions that exist, and
\* those that requests were made for before
IssuedIds ==
    {SeedSession} \cup DOMAIN chunks
        \cup {tasks[t].upload_id : t \in {x \in DOMAIN tasks : tasks[x].op # "store_file_streaming"}}

\* upload_chunk up to await request.body()
UploadChunkBegin ==
    \E upload_id \in IssuedIds :
        /\ NewTask \in TaskIds
        /\ tasks' = Spawn(IF upload_id \in DOMAIN chunks
                          THEN TaskRecord("upload_chunk", "body", SessionUpload[1], "", <<>>,
                                          NoPath, upload_id, 0, "")
                          ELSE TaskRecord("upload_chunk", "ended", SessionUpload[1], "", <<>>,
                                          NoPath, upload_id, 404, "Upload session not found"))
        /\ UNCHANGED <<admins, issued, disk, now, file_hashes, photos, albums, chunks, cleanup_task,
                       uuid_count, last>>

\* upload_chunk from aiofiles.open(chunk_path, "wb") on
UploadChunkWrite ==
    \E t \in DOMAIN tasks :
        LET k == tasks[t]
        IN  /\ k.op = "upload_chunk" /\ k.pc = "body"
            /\ IF k.upload_id \in DOMAIN chunks
               THEN /\ chunks' = upload_chunk(chunks, k.upload_id, 0, now)
                    /\ tasks' = [tasks EXCEPT ![t] = Ended(k, 200, "")]
               ELSE /\ chunks' = chunks
                    /\ tasks' = [tasks EXCEPT ![t] = Ended(k, 500, "FileNotFoundError")]
            /\ UNCHANGED <<admins, issued, disk, now, file_hashes, photos, albums, cleanup_task, uuid_count, last>>

\* complete_chunked_upload up to await db.execute(stmt), for the session's album;
\* a client completes a session once its chunk is there
CompleteBegin ==
    \E upload_id \in IssuedIds :
        /\ NewTask \in TaskIds
        /\ upload_id \in DOMAIN chunks => ChunkName(0) \in DOMAIN chunks[upload_id].files
        /\ tasks' = Spawn(IF upload_id \in DOMAIN chunks
                          THEN TaskRecord("complete_chunked_upload", "assemble", SessionUpload[1],
                                          ExtensionOf(SessionUpload[2]), <<>>, NoPath,
                                          upload_id, 0, "")
                          ELSE TaskRecord("complete_chunked_upload", "ended", SessionUpload[1],
                                          ExtensionOf(SessionUpload[2]), <<>>, NoPath,
                                          upload_id, 404, "Upload session not found"))
        /\ UNCHANGED <<admins, issued, disk, now, file_hashes, photos, albums, chunks, cleanup_task,
                       uuid_count, last>>

\* complete_chunked_upload: the chunks are concatenated into assembled<ext>
CompleteAssemble ==
    \E t \in DOMAIN tasks :
        LET k == tasks[t]
        IN  /\ k.op = "complete_chunked_upload" /\ k.pc = "assemble"
            /\ IF k.upload_id \in DOMAIN chunks
               THEN /\ chunks' = assemble(chunks, k.upload_id, k.extension, now)
                    /\ tasks' = [tasks EXCEPT ![t] = [k EXCEPT !.pc = "store"]]
               ELSE /\ chunks' = chunks
                    /\ tasks' = [tasks EXCEPT ![t] = Ended(k, 500, "FileNotFoundError")]
            /\ UNCHANGED <<admins, issued, disk, now, file_hashes, photos, albums, cleanup_task, uuid_count, last>>

\* complete_chunked_upload: store_file_streaming on the assembled file, then
\* shutil.rmtree(upload_dir), then the catalog rows, where stored.captured_at
\* raises AttributeError and the transaction is rolled back
CompleteStore ==
    \E t \in DOMAIN tasks :
        LET k == tasks[t]
            r == store_file_streaming(disk, k.bytes, SessionUpload[2], UuidHex(uuid_count + 1),
                                      "none", now)
        IN  /\ k.op = "complete_chunked_upload" /\ k.pc = "store"
            /\ uuid_count < MaxUuid
            /\ IF k.upload_id \in DOMAIN chunks
               THEN /\ disk' = r.disk
                    /\ uuid_count' = uuid_count + 1
                    /\ chunks' = rmtree(chunks, k.upload_id)
                    /\ tasks' = [tasks EXCEPT ![t] =
                                    [Ended(k, 500, "AttributeError") EXCEPT !.result = r.result]]
               ELSE /\ UNCHANGED <<admins, issued, disk, uuid_count, chunks>>
                    /\ tasks' = [tasks EXCEPT ![t] = Ended(k, 500, "FileNotFoundError")]
            /\ UNCHANGED <<admins, issued, now, file_hashes, photos, albums, cleanup_task, last>>

Elapse ==
    \E t \in TaskInstants :
        /\ t > now
        /\ now' = t
        /\ UNCHANGED <<admins, issued, tasks, disk, file_hashes, photos, albums, chunks, cleanup_task,
                       uuid_count, last>>

NextTasks ==
    \/ BeginStore
    \/ StreamImage
    \/ GenerateThumbnails
    \/ StreamVideo
    \/ Abort
    \/ InitChunkedSession
    \/ UploadChunkBegin
    \/ UploadChunkWrite
    \/ CompleteBegin
    \/ CompleteAssemble
    \/ CompleteStore
    \/ PeriodicCleanup
    \/ Elapse

SpecTasks == InitTasks /\ [][NextTasks]_vars

-----------------------------------------------------------------------------
(* SpecLifecycle: start_cleanup_task and stop_cleanup_task called in any order, *)
(* and the periodic_cleanup tasks they create                                   *)

\* the clock readings followed here: whole intervals since the process started
LifeInstants == {0, interval_seconds, 2 * interval_seconds}

\* _cleanup_task when it is not None: the asyncio.Task that start_cleanup_task
\* created last
Handle(t) == [running |-> TRUE, sleeping_since |-> now, task |-> t]

\* a periodic_cleanup coroutine: asleep since, or cancelled
PeriodicTask(pc, t) == [op |-> "periodic_cleanup", pc |-> pc, sleeping_since |-> t]

\* start_cleanup_task: create_task(periodic_cleanup(upload_dir)) and assign it to
\* the global, whatever the global held
StartCleanupTask ==
    /\ NewTask \in TaskIds
    /\ tasks' = [t \in DOMAIN tasks \cup {NewTask} |->
                    IF t = NewTask THEN PeriodicTask("sleeping", now) ELSE tasks[t]]
    /\ cleanup_task' = Handle(NewTask)
    /\ last' = [op |-> "start_cleanup_task"]
    /\ UNCHANGED <<admins, issued, disk, now, file_hashes, photos, albums, chunks, uuid_count>>

\* stop_cleanup_task: cancel the task the global holds, await it, set the global
\* to None; nothing when the global is None
StopCleanupTask ==
    /\ IF Running
       THEN tasks' = [tasks EXCEPT ![cleanup_task.task] =
                         PeriodicTask("cancelled", tasks[cleanup_task.task].sleeping_since)]
       ELSE tasks' = tasks
    /\ cleanup_task' = NoTask
    /\ last' = [op |-> "stop_cleanup_task"]
    /\ UNCHANGED <<admins, issued, disk, now, file_hashes, photos, albums, chunks, uuid_count>>

\* one turn of the loop of a periodic_cleanup task that was not cancelled: its
\* sleep is over, the sweep runs, the next sleep starts
PeriodicCleanupTurn ==
    \E t \in DOMAIN tasks :
        LET r == cleanup_old_temp_files(disk, chunks, now)
        IN  /\ tasks[t].pc = "sleeping"
            /\ now >= tasks[t].sleeping_since + interval_seconds
            /\ disk' = r.disk
            /\ chunks' = r.chunks
            /\ tasks' = [tasks EXCEPT ![t] = PeriodicTask("sleeping", now)]
            /\ last' = [op |-> "cleanup_old_temp_files", at |-> now, task |-> t,
                        cleaned_count |-> r.cleaned_count, removed |-> r.removed]
            /\ UNCHANGED <<admins, issued, now, file_hashes, photos, albums, cleanup_task, uuid_count>>

Wait ==
    \E t \in LifeInstants :
        /\ t > now
        /\ now' = t
        /\ UNCHANGED <<admins, issued, tasks, disk, file_hashes, photos, albums, chunks, cleanup_task,
                       uuid_count, last>>

NextLifecycle ==
    \/ StartCleanupTask
    \/ StopCleanupTask
    \/ PeriodicCleanupTurn
    \/ DownloadZip
    \/ Wait

SpecLifecycle == InitSweep /\ [][NextLifecycle]_vars

-----------------------------------------------------------------------------
(* SpecAuth: the admins table and the handlers of api/auth that issue and accept *)
(* tokens, interleaved at their awaits                                           *)

Emails == {"owner@example.com", "second@example.com"}
Passwords == {"correct horse", "wrong"}

\* bcrypt.hashpw / bcrypt.checkpw: a hash matches the text it was made from
Bcrypt(text) == [bcrypt |-> text]
hash_password(password) == Bcrypt(password)
verify_password(password, password_hash) == password_hash = Bcrypt(password)

\* what a client types as a 2FA code
Codes == {"123456", "654321", "A1B2C3D4", "a1b2-c3d4", "FFFF0000"}

\* code.strip().replace(" ", "").replace("-", "") on the codes above
StripCode(code) == IF code = "a1b2-c3d4" THEN "a1b2c3d4" ELSE code

\* code.upper().replace("-", "").replace(" ", "") on the codes above
NormalizeCode(code) == IF code \in {"a1b2-c3d4", "a1b2c3d4"} THEN "A1B2C3D4" ELSE code

\* len(code) == 6 and code.isdigit()
TotpShaped(code) == code \in {"123456", "654321"}

\* pyotp.TOTP(secret).verify(code, valid_window=1) while the authenticator shows 123456
verify_totp_code(secret, code) == secret = "JBSWY3DPEHPK3PXP" /\ code = "123456"

\* encode_backup_codes: the bcrypt hashes of the codes, in order; None is no code
encode_backup_codes(codes) == [i \in DOMAIN codes |-> Bcrypt(codes[i])]

RemoveAt(seq, i) == SubSeq(seq, 1, i - 1) \o SubSeq(seq, i + 1, Len(seq))

\* verify_backup_code: the first stored hash the normalized code matches is removed
verify_backup_code(encoded_codes, code) ==
    LET hits == {i \in DOMAIN encoded_codes : encoded_codes[i] = Bcrypt(NormalizeCode(code))}
    IN  IF hits = {} THEN [valid |-> FALSE, codes |-> <<>>]
        ELSE [valid |-> TRUE,
              codes |-> RemoveAt(encoded_codes, CHOOSE i \in hits : \A j \in hits : i <= j)]

\* JWTs signed with JWT_SECRET, within their lifetime, and a string that is no JWT
Token(type, sub) == [type |-> type, sub |-> sub]
Garbage == Token("garbage", -1)
NoAdmin == -1

create_access_token(admin_id) == Token("access", admin_id)
create_refresh_token(admin_id) == Token("refresh", admin_id)
create_temp_2fa_token(admin_id) == Token("2fa_pending", admin_id)

\* verify_access_token + get_admin_id_from_token
get_admin_id_from_token(token) == IF token.type = "access" THEN token.sub ELSE NoAdmin

verify_temp_2fa_token(token) == IF token.type = "2fa_pending" THEN token.sub ELSE NoAdmin

TokenResponse(admin_id) ==
    [access_token |-> create_access_token(admin_id),
     refresh_token |-> create_refresh_token(admin_id)]

TokensOf(response) == {response.access_token, response.refresh_token}

AdminRow(email, password, owner, enabled, secret, codes) ==
    [email |-> email, password_hash |-> hash_password(password), is_owner |-> owner,
     totp_enabled |-> enabled, totp_secret |-> secret, backup_codes |-> codes]

\* an owner who has set up and enabled 2FA and holds two backup codes
SeedAdmin == 0
SeedAdmins ==
    [a \in {SeedAdmin} |->
        AdminRow("owner@example.com", "correct horse", TRUE, TRUE, "JBSWY3DPEHPK3PXP",
                 encode_backup_codes(<<"A1B2C3D4", "0BADC0DE">>))]

\* a request coroutine of api/auth
AuthTask(op, pc, email, code, admin_id, row) ==
    [op |-> op, pc |-> pc, email |-> email, code |-> code, admin_id |-> admin_id,
     row |-> row, status |-> 0, error |-> "", method |-> "", concurrent |-> {}]

\* the database is empty, or holds the owner with 2FA enabled
InitAuth ==
    /\ disk = NoDisk
    /\ now = 0
    /\ file_hashes = NoDisk
    /\ photos = NoDisk
    /\ albums = {}
    /\ chunks = NoDisk
    /\ cleanup_task = Task(0)
    /\ uuid_count = 0
    /\ last = NoCall
    /\ tasks = NoDisk
    /\ admins \in {NoDisk, SeedAdmins}
    /\ issued = {}

\* register up to the answer of select(func.count(Admin.id)): 403 when it is not 0
RegisterBegin ==
    \E email \in Emails :
        /\ NewTask \in TaskIds
        /\ tasks' = Spawn(IF admins # NoDisk
                          THEN Ended(AuthTask("register", "", email, "", NoAdmin, NoDisk),
                                     403, "Registration is closed")
                          ELSE AuthTask("register", "email", email, "", NoAdmin, NoDisk))
        /\ UNCHANGED <<disk, now, file_hashes, photos, albums, chunks, cleanup_task,
                       uuid_count, last, admins, issued>>

\* register: the answer of select(Admin).where(Admin.email == data.email)
RegisterCheckEmail ==
    \E t \in DOMAIN tasks :
        LET k == tasks[t]
        IN  /\ k.op = "register" /\ k.pc = "email"
            /\ tasks' = [tasks EXCEPT ![t] =
                            IF \E a \in DOMAIN admins : admins[a].email = k.email
                            THEN Ended(k, 400, "Email already registered")
                            ELSE [k EXCEPT !.pc = "commit"]]
            /\ UNCHANGED <<disk, now, file_hashes, photos, albums, chunks, cleanup_task,
                           uuid_count, last, admins, issued>>

\* register: db.add(admin), commit, and the tokens; the unique index on email
\* refuses a second row with the same address
RegisterCommit ==
    \E t \in DOMAIN tasks :
        LET k == tasks[t]
            admin_id == uuid_count + 1
        IN  /\ k.op = "register" /\ k.pc = "commit"
            /\ uuid_count < MaxUuid
            /\ IF \E a \in DOMAIN admins : admins[a].email = k.email
               THEN /\ tasks' = [tasks EXCEPT ![t] = Ended(k, 500, "IntegrityError")]
                    /\ UNCHANGED <<admins, issued, uuid_count>>
               ELSE /\ admins' = [a \in DOMAIN admins \cup {admin_id} |->
                                     IF a = admin_id
                                     THEN AdminRow(k.email, "correct horse", TRUE, FALSE, "", <<>>)
                                     ELSE admins[a]]
                    /\ uuid_count' = admin_id
                    /\ issued' = issued \cup TokensOf(TokenResponse(admin_id))
                    /\ tasks' = [tasks EXCEPT ![t] = [Ended(k, 201, "") EXCEPT !.admin_id = admin_id]]
            /\ UNCHANGED <<disk, now, file_hashes, photos, albums, chunks, cleanup_task, last>>

\* login: one query, then the answer
Login ==
    \E email \in Emails, password \in Passwords :
        LET found == {a \in DOMAIN admins : admins[a].email = email}
            a == CHOOSE x \in found : TRUE
            call == [op |-> "login", email |-> email, password |-> password]
        IN  /\ IF found = {} \/ ~verify_password(password, admins[a].password_hash)
               THEN /\ last' = [call EXCEPT !.op = "login"] @@ [status |-> 401]
                    /\ issued' = issued
               ELSE IF admins[a].totp_enabled /\ admins[a].totp_secret # ""
               THEN /\ last' = call @@ [status |-> 200, requires_2fa |-> TRUE, admin_id |-> a,
                                        temp_token |-> create_temp_2fa_token(a)]
                    /\ issued' = issued \cup {create_temp_2fa_token(a)}
               ELSE /\ last' = call @@ [status |-> 200, requires_2fa |-> FALSE, admin_id |-> a,
                                        response |-> TokenResponse(a)]
                    /\ issued' = issued \cup TokensOf(TokenResponse(a))
            /\ UNCHANGED <<disk, now, file_hashes, photos, albums, chunks, cleanup_task,
                           uuid_count, tasks, admins>>

\* the tokens a client can send: those it was handed, and something that is no JWT
Presentable == issued \cup {Garbage}

\* verify_2fa up to the answer of select(Admin).where(Admin.id == admin_id)
Verify2FABegin ==
    \E temp_token \in Presentable, code \in Codes :
        LET admin_id == verify_temp_2fa_token(temp_token)
            k == AuthTask("verify_2fa", "verify", "", code, admin_id, NoDisk)
        IN  /\ NewTask \in TaskIds
            /\ tasks' = Spawn(IF admin_id = NoAdmin
                              THEN Ended(k, 401, "Invalid or expired 2FA session")
                              ELSE IF \/ admin_id \notin DOMAIN admins
                                      \/ ~admins[admin_id].totp_enabled
                                      \/ admins[admin_id].totp_secret = ""
                              THEN Ended(k, 401, "2FA not configured")
                              ELSE [k EXCEPT !.row = admins[admin_id]])
            /\ UNCHANGED <<disk, now, file_hashes, photos, albums, chunks, cleanup_task,
                           uuid_count, last, admins, issued>>

\* verify_2fa from the normalisation of the code on: the TOTP code, or a backup
\* code, checked against the row that was read; a backup code that is accepted is
\* taken off the list, the row is committed, and the tokens are issued
Verify2FAEnd ==
    \E t \in DOMAIN tasks :
        LET k == tasks[t]
            code == StripCode(k.code)
            r == verify_backup_code(k.row.backup_codes, code)
            ok(method) == [Ended(k, 200, "") EXCEPT !.method = method]
        IN  /\ k.op = "verify_2fa" /\ k.pc = "verify"
            /\ IF TotpShaped(code)
               THEN IF verify_totp_code(k.row.totp_secret, code)
                    THEN /\ tasks' = [tasks EXCEPT ![t] = ok("totp")]
                         /\ issued' = issued \cup TokensOf(TokenResponse(k.admin_id))
                         /\ admins' = admins
                    ELSE /\ tasks' = [tasks EXCEPT ![t] = Ended(k, 401, "Invalid verification code")]
                         /\ UNCHANGED <<admins, issued>>
               ELSE IF r.valid
                    THEN /\ tasks' = [tasks EXCEPT ![t] = ok("backup")]
                         /\ admins' = [admins EXCEPT ![k.admin_id].backup_codes = r.codes]
                         /\ issued' = issued \cup TokensOf(TokenResponse(k.admin_id))
                    ELSE /\ tasks' = [tasks EXCEPT ![t] = Ended(k, 401, "Invalid verification code")]
                         /\ UNCHANGED <<admins, issued>>
            /\ UNCHANGED <<disk, now, file_hashes, photos, albums, chunks, cleanup_task,
                           uuid_count, last>>

\* GET /auth/me behind get_current_admin
GetCurrentUser ==
    \E token \in Presentable :
        LET admin_id == get_admin_id_from_token(token)
        IN  /\ last' = [op |-> "get_current_user", token |-> token,
                        status |-> IF admin_id # NoAdmin /\ admin_id \in DOMAIN admins
                                   THEN 200 ELSE 401]
            /\ UNCHANGED <<disk, now, file_hashes, photos, albums, chunks, cleanup_task,
                           uuid_count, tasks, admins, issued>>

NextAuth ==
    \/ RegisterBegin
    \/ RegisterCheckEmail
    \/ RegisterCommit
    \/ Login
    \/ Verify2FABegin
    \/ Verify2FAEnd
    \/ GetCurrentUser

SpecAuth == InitAuth /\ [][NextAuth]_vars

-----------------------------------------------------------------------------
(* SpecCatalog: POST /upload and delete_photo as coroutines that interleave at *)
(* their database awaits, each with its own session                            *)

\* the image that is uploaded again while photos of it are deleted
CatalogUpload == <<"jpegA", "IMG_0001.jpg">>

\* a request coroutine of the catalog layer: `seen` is the reference_count of the
\* FileHash row in its session (0: no row), `file` what it ingested or is to delete
CatalogTask(op, pc, photo_id, file, seen) ==
    [op |-> op, pc |-> pc, photo_id |-> photo_id, file |-> file, seen |-> seen,
     status |-> 0, error |-> "", concurrent |-> {}]

\* upload_file up to the return of store_file_streaming
UploadFileStore ==
    LET r == store_file_streaming(disk, CatalogUpload[1], CatalogUpload[2],
                                  FreshTemp(disk), "none", now)
    IN  /\ NewTask \in TaskIds
        /\ TempIdsFree(disk) # {}
        /\ disk' = r.disk
        /\ tasks' = Spawn(CatalogTask("upload_file", "select", 0, r.result, 0))
        /\ UNCHANGED <<admins, issued, now, file_hashes, photos, albums, chunks,
                       cleanup_task, uuid_count, last>>

\* _create_or_update_file_hash: the answer of select(FileHash) by sha256_hash
UploadFileSelect ==
    \E t \in DOMAIN tasks :
        LET k == tasks[t]
            h == k.file.file_id
        IN  /\ k.op = "upload_file" /\ k.pc = "select"
            /\ tasks' = [tasks EXCEPT ![t] =
                            [k EXCEPT !.pc = "commit",
                                      !.seen = IF h \in DOMAIN file_hashes
                                               THEN file_hashes[h].reference_count ELSE 0]]
            /\ UNCHANGED <<admins, issued, disk, now, file_hashes, photos, albums, chunks,
                           cleanup_task, uuid_count, last>>

\* a commit that writes the count the session computed over the row as it is now
CommitBlind(fh, h, seen, result) ==
    IF seen = 0
    THEN [k \in DOMAIN fh \cup {h} |-> IF k = h THEN FileHashRow(result) ELSE fh[k]]
    ELSE [fh EXCEPT ![h].reference_count = seen + 1]

\* _create_or_update_file_hash: db.commit() flushes INSERT ... reference_count=1, or
\* UPDATE ... SET reference_count=<seen + 1>; the unique index on sha256_hash
\* refuses a second row, and an UPDATE that matches no row is a StaleDataError
UploadFileCommit ==
    \E t \in DOMAIN tasks :
        LET k == tasks[t]
            h == k.file.file_id
        IN  /\ k.op = "upload_file" /\ k.pc = "commit"
            /\ IF k.seen = 0 /\ h \in DOMAIN file_hashes
               THEN /\ tasks' = [tasks EXCEPT ![t] = Ended(k, 500, "IntegrityError")]
                    /\ file_hashes' = file_hashes
               ELSE IF k.seen > 0 /\ h \notin DOMAIN file_hashes
               THEN /\ tasks' = [tasks EXCEPT ![t] = Ended(k, 500, "StaleDataError")]
                    /\ file_hashes' = file_hashes
               ELSE /\ tasks' = [tasks EXCEPT ![t] = Ended(k, 200, "")]
                    /\ file_hashes' = CommitBlind(file_hashes, h, k.seen, k.file)
            /\ UNCHANGED <<admins, issued, disk, now, photos, albums, chunks,
                           cleanup_task, uuid_count, last>>

\* delete_photo up to the answer of select(Photo) with its file_hash
DeletePhotoSelect ==
    \E photo_id \in DOMAIN photos :
        LET h == photos[photo_id].file_hash
        IN  /\ NewTask \in TaskIds
            /\ h \in DOMAIN file_hashes
            /\ tasks' = Spawn(CatalogTask("delete_photo", "commit", photo_id,
                                          FileInfo(file_hashes, photos, photo_id),
                                          file_hashes[h].reference_count))
            /\ UNCHANGED <<admins, issued, disk, now, file_hashes, photos, albums, chunks,
                           cleanup_task, uuid_count, last>>

\* delete_photo from the decrement to db.commit(): the Photo row is deleted, and
\* the FileHash row is deleted when the count of the session reached 0, updated
\* to that count otherwise
DeletePhotoCommit ==
    \E t \in DOMAIN tasks :
        LET k == tasks[t]
            h == k.file.file_id
            count == k.seen - 1
        IN  /\ k.op = "delete_photo" /\ k.pc = "commit"
            /\ IF count > 0 /\ h \notin DOMAIN file_hashes
               THEN /\ tasks' = [tasks EXCEPT ![t] = Ended(k, 500, "StaleDataError")]
                    /\ UNCHANGED <<file_hashes, photos>>
               ELSE /\ photos' = RemoveRows(photos, {k.photo_id})
                    /\ file_hashes' = IF count <= 0 THEN RemoveRows(file_hashes, {h})
                                      ELSE [file_hashes EXCEPT ![h].reference_count = count]
                    /\ tasks' = [tasks EXCEPT ![t] =
                                    IF count <= 0 THEN [k EXCEPT !.pc = "files"]
                                    ELSE Ended(k, 204, "")]
            /\ UNCHANGED <<admins, issued, disk, now, albums, chunks, cleanup_task,
                           uuid_count, last>>

\* delete_photo after the commit: delete_file for the identity that reached 0
DeletePhotoFiles ==
    \E t \in DOMAIN tasks :
        LET k == tasks[t]
        IN  /\ k.op = "delete_photo" /\ k.pc = "files"
            /\ disk' = delete_file(disk, k.file.file_id, k.file.extension,
                                   k.file.is_video, "none").disk
            /\ tasks' = [tasks EXCEPT ![t] = Ended(k, 204, "")]
            /\ UNCHANGED <<admins, issued, now, file_hashes, photos, albums, chunks,
                           cleanup_task, uuid_count, last>>

NextCatalog ==
    \/ UploadFileStore
    \/ UploadFileSelect
    \/ UploadFileCommit
    \/ DeletePhotoSelect
    \/ DeletePhotoCommit
    \/ DeletePhotoFiles

SpecCatalog == Init /\ [][NextCatalog]_vars

-----------------------------------------------------------------------------
(* SpecAssemble: the chunk files of one upload session, as upload_chunk names *)
(* them and complete_chunked_upload sorts and concatenates them              *)

\* the most chunk files a session directory holds
MaxChunks == 3

\* chunk_index is an int query parameter with no range check
ChunkIndexValues == {-2, -1, 0, 1, 999999, 1000000}
\* the bodies of the chunk requests
ChunkData == {"x", "y"}

DigitChars == <<"0", "1", "2", "3", "4", "5", "6", "7", "8", "9">>

\* str(n) for n >= 0
RECURSIVE Decimal(_)
Decimal(n) == IF n < 10 THEN <<DigitChars[n + 1]>> ELSE Decimal(n \div 10) \o <<DigitChars[(n % 10) + 1]>>

\* zeros in front up to the width
RECURSIVE ZeroPad(_, _)
ZeroPad(s, width) == IF Len(s) >= width THEN s ELSE ZeroPad(<<"0">> \o s, width)

\* f"{chunk_index:06d}": the sign counts in the width of 6
Format06d(n) == IF n < 0 THEN <<"-">> \o ZeroPad(Decimal(-n), 5) ELSE ZeroPad(Decimal(n), 6)

\* the name of the chunk file, after the prefix "chunk_" that all of them share
ChunkFileName(chunk_index) == Format06d(chunk_index)

\* ord() of the characters of a formatted index
Ord(c) == IF c = "-" THEN 45 ELSE 47 + CHOOSE i \in DOMAIN DigitChars : DigitChars[i] = c

\* str.__lt__: the first differing character decides, a proper prefix is smaller
RECURSIVE StrLess(_, _)
StrLess(a, b) ==
    IF b = <<>> THEN FALSE
    ELSE IF a = <<>> THEN TRUE
    ELSE IF Head(a) # Head(b) THEN Ord(Head(a)) < Ord(Head(b))
    ELSE StrLess(Tail(a), Tail(b))

\* sorted(upload_dir.glob("chunk_*")): paths in one directory, ordered as strings
RECURSIVE sorted(_)
sorted(names) ==
    IF names = {} THEN <<>>
    ELSE LET first == CHOOSE n \in names : \A m \in names \ {n} : StrLess(n, m)
         IN  <<first>> \o sorted(names \ {first})

\* the loop that writes every chunk file, in the order sorted, into assembled<ext>
Concatenation(files) == [i \in 1..Cardinality(DOMAIN files) |-> files[sorted(DOMAIN files)[i]]]

\* a session directory after init_chunked_upload
InitAssemble ==
    /\ disk = NoDisk
    /\ now = 0
    /\ file_hashes = NoDisk
    /\ photos = NoDisk
    /\ albums = {}
    /\ chunks = [files |-> NoDisk, chunks_received |-> <<>>]
    /\ cleanup_task = NoTask
    /\ uuid_count = 0
    /\ last = NoCall
    /\ tasks = NoDisk
    /\ admins = NoDisk
    /\ issued = {}

\* upload_chunk: the body is written to chunk_<index>, over an earlier file of
\* the same name, and an index not yet in chunks_received is appended to it
ReceiveChunk ==
    \E chunk_index \in ChunkIndexValues, chunk_data \in ChunkData :
        LET name == ChunkFileName(chunk_index)
            names == DOMAIN chunks.files \cup {name}
        IN  /\ Cardinality(names) <= MaxChunks
            /\ chunks' = [files |-> [n \in names |->
                                        IF n = name THEN chunk_data ELSE chunks.files[n]],
                          chunks_received |->
                              IF \E i \in DOMAIN chunks.chunks_received :
                                     chunks.chunks_received[i] = chunk_index
                              THEN chunks.chunks_received
                              ELSE Append(chunks.chunks_received, chunk_index)]
            /\ last' = [op |-> "upload_chunk", chunk_index |-> chunk_index]
            /\ UNCHANGED <<admins, issued, disk, now, file_hashes, photos, albums,
                           cleanup_task, uuid_count, tasks>>

\* complete_chunked_upload as far as the assembled file that it hands to
\* store_file_streaming
AssembleChunks ==
    /\ last' = [op |-> "complete_chunked_upload", assembled |-> Concatenation(chunks.files)]
    /\ UNCHANGED <<admins, issued, disk, now, file_hashes, photos, albums, chunks,
                   cleanup_task, uuid_count, tasks>>

NextAssemble == ReceiveChunk \/ AssembleChunks

SpecAssemble == InitAssemble /\ [][NextAssemble]_vars

-----------------------------------------------------------------------------
(* Claims about the StorageService, under SpecStore *)

StoredImage(c) == c.op = "store" /\ ~c.raised /\ ~c.result.is_video
StoredVideo(c) == c.op = "store" /\ ~c.raised /\ c.result.is_video

\* C2: ingesting the same image bytes twice in a row, under any two file names,
\* returns the same file_id both times and is_duplicate = true the second time.
C2_SecondIngestIsDuplicate ==
    [][(StoredImage(last) /\ StoredImage(last') /\ last'.bytes = last.bytes)
        => (last'.result.file_id = last.result.file_id /\ last'.result.is_duplicate)]_vars

\* the variants of the last ingested image
ThumbOfLast == _get_storage_path(last.result.file_id, VARIANT_THUMBNAIL, ".webp")
WebOfLast == _get_storage_path(last.result.file_id, VARIANT_WEB, ".webp")

\* an image ingestion returned, and found the original in place with a variant missing
HealCase ==
    /\ StoredImage(last)
    /\ last.before.original
    /\ ~last.before.thumb \/ ~last.before.web

\* C3 as stated: whenever an ingestion finds the original in place with a variant
\* missing, the thumbnail and the web file both exist when it returns.
C3_AlwaysHealed ==
    HealCase => Exists(disk, ThumbOfLast) /\ Exists(disk, WebOfLast)

\* C3 amended: an ingestion that finds the original in place with a variant missing
\* leaves both the thumbnail and the web file in place when it returns, provided the
\* stored original decodes and both variant writes succeed (a derivation failure is
\* swallowed and the ingestion still returns).
C3_HealedWhenDerivable ==
    (HealCase /\ last.bytes \in Decodable /\ last.fault \notin {"thumb_save", "web_save"})
        => Exists(disk, ThumbOfLast) /\ Exists(disk, WebOfLast)

C3_Witness ==
    /\ HealCase
    /\ last.result.is_duplicate
    /\ last.bytes \in Decodable
    /\ last.fault = "none"
    /\ Exists(disk, ThumbOfLast) /\ Exists(disk, WebOfLast)

\* C4: every video upload that returns reports is_duplicate = false and creates a
\* new file under videos/ holding the uploaded bytes, leaving every file already on
\* disk as it was; two uploads of the same bytes in a row return distinct identities.
C4_VideoIsolation ==
    [][StoredVideo(last') =>
        /\ ~last'.result.is_duplicate
        /\ last'.result.storage_path.root = "videos"
        /\ last'.result.storage_path.stem = last'.result.file_id
        /\ ~Exists(disk, last'.result.storage_path)
        /\ Exists(disk', last'.result.storage_path)
        /\ disk'[last'.result.storage_path].data = Raw(last'.bytes)
        /\ \A p \in DOMAIN disk : Exists(disk', p) /\ disk'[p] = disk[p]
        /\ (StoredVideo(last) /\ last.bytes = last'.bytes)
              => last'.result.file_id # last.result.file_id]_vars

C4_Witness ==
    /\ StoredVideo(last)
    /\ \E p \in DOMAIN disk :
          /\ p.root = "videos"
          /\ p.stem # last.result.file_id
          /\ disk[p].data = Raw(last.bytes)
          /\ disk[last.result.storage_path].data = Raw(last.bytes)

\* every variant path of an identity: an image's original, thumbnail and web file,
\* or a video's file, poster thumbnail and poster web file
VariantPaths(file_id, extension, video) ==
    IF video
    THEN {_get_video_path(file_id, extension), get_thumbnail_path(file_id), get_web_path(file_id)}
    ELSE {_get_storage_path(file_id, VARIANT_ORIGINAL, extension),
          _get_storage_path(file_id, VARIANT_THUMBNAIL, ".webp"),
          _get_storage_path(file_id, VARIANT_WEB, ".webp")}

\* C5: after delete_file returns, no variant path of the identity exists on disk.
C5_NoVariantLeft ==
    (last.op = "delete_file" /\ ~last.raised)
        => \A p \in VariantPaths(last.file_id, last.extension, last.is_video) : ~Exists(disk, p)

\* C8: an ingestion that fails leaves the permanent paths as they were.
C8_FailureLeavesNoPermanentFile ==
    [][(last'.op = "store" /\ last'.raised) => Permanent(disk') \subseteq Permanent(disk)]_vars

-----------------------------------------------------------------------------
(* Claims about the catalog, under Spec *)

\* the identities that have a file under the upload directory
OnDisk(d) == {p.stem : p \in Permanent(d)}

Referenced(fh, id) == id \in DOMAIN fh /\ fh[id].reference_count >= 1

\* C1: in every state reached by uploads and deletions, an identity's files exist
\* on disk if and only if the catalog holds a FileHash row for it with
\* reference_count >= 1.
C1_FilesIffReferenced ==
    \A id \in OnDisk(disk) \cup DOMAIN file_hashes :
        id \in OnDisk(disk) <=> Referenced(file_hashes, id)

DeleteOps == {"delete_photo", "bulk_delete_photos", "delete_album"}

FilesOf(d, f) == {p \in Permanent(d) : p.stem = f.file_id}

\* where the file of a FileHash row is
StoredAt(f) ==
    IF f.is_video THEN _get_video_path(f.file_id, f.extension)
    ELSE _get_storage_path(f.file_id, VARIANT_ORIGINAL, f.extension)

\* C9 as stated: when the delete_file of an identity that reached 0 fails, the
\* identity's FileHash row is not removed.
C9_FailedDeleteKeepsRecord ==
    last.op \in DeleteOps => \A f \in last.failed : f.file_id \in DOMAIN file_hashes

\* C9 amended: a deletion first commits the removal of the rows of every identity
\* that reached 0 and only afterwards invokes delete_file for those identities. If
\* the commit fails, delete_file is not invoked and disk and catalog are as before;
\* if the commit succeeds the rows are gone, whether or not a delete_file fails (its
\* error is swallowed), and a delete_file that does not fail leaves no file at the
\* path the identity was stored at.
C9_CommitThenDelete ==
    [][last'.op \in DeleteOps =>
        IF last'.committed
        THEN /\ last'.invoked = last'.zero
             /\ last'.failed \subseteq last'.invoked
             /\ \A f \in last'.zero : f.file_id \notin DOMAIN file_hashes'
             /\ \A f \in last'.zero \ last'.failed : ~Exists(disk', StoredAt(f))
        ELSE /\ last'.invoked = {}
             /\ disk' = disk
             /\ file_hashes' = file_hashes
             /\ photos' = photos]_vars

\* a deletion committed, and the delete_file of an identity that reached 0 failed
C9_Witness ==
    /\ last.op \in DeleteOps
    /\ last.committed
    /\ last.failed # {}
    /\ \E f \in last.failed : FilesOf(disk, f) # {}

-----------------------------------------------------------------------------
(* Claims about the sweeps, under SpecSweep *)

\* a step that is a call of cleanup_old_temp_files
SweepStep == last'.op = "cleanup_old_temp_files" /\ now' = now

\* a call of cleanup_old_temp_files right after a call of cleanup_old_temp_files
SecondSweepStep == last.op = "cleanup_old_temp_files" /\ SweepStep

TempFiles(d) == {p \in DOMAIN d : p.root \in {"/tmp", "temp_"}}

C10_ManualCleanupAsSweep ==
    [][(last'.op = "cleanup_upload_temp_files" /\ now' = now) =>
        LET r == cleanup_old_temp_files(disk, chunks, now)
        IN  /\ \A p \in Glob(disk, "temp_*") : p \in DOMAIN disk' <=> p \in DOMAIN r.disk
            /\ DOMAIN chunks' = DOMAIN r.chunks]_vars

-----------------------------------------------------------------------------
(* Claims about duplicate ingestion, under SpecTimedStore *)

\* C14: an image ingestion that returns is_duplicate = true leaves the file at the
\* original's path as it was: same content and same modification time before and
\* after the call.
C14_DuplicateLeavesOriginal ==
    [][(StoredImage(last') /\ last'.result.is_duplicate /\ now' = now) =>
        LET p == last'.result.storage_path
        IN  /\ Exists(disk, p)
            /\ Exists(disk', p)
            /\ disk'[p] = disk[p]]_vars

\* an hour after the original was stored, a duplicate ingestion wrote the missing
\* thumbnail and left the original with its modification time
C14_Witness ==
    /\ StoredImage(last)
    /\ last.result.is_duplicate
    /\ ~last.before.thumb
    /\ Exists(disk, ThumbOfLast)
    /\ disk[ThumbOfLast].mtime = now
    /\ disk[last.result.storage_path].mtime < now

-----------------------------------------------------------------------------
(* Further claims about the StorageService, under SpecStore *)

\* C15: regenerate_thumbnails returns False exactly when the original of the identity
\* is missing on disk, and then it creates or changes no file; whenever the original
\* exists it returns True.
C15_FalseIffOriginalMissing ==
    [][last'.op = "regenerate_thumbnails" =>
        LET original == _get_storage_path(last'.file_id, VARIANT_ORIGINAL, last'.extension)
        IN  /\ last'.result = Exists(disk, original)
            /\ ~last'.result => disk' = disk]_vars

\* regenerate_thumbnails returned False for an identity whose thumbnail is on disk
C15_Witness ==
    /\ last.op = "regenerate_thumbnails"
    /\ ~last.result
    /\ ~Exists(disk, _get_storage_path(last.file_id, VARIANT_ORIGINAL, last.extension))
    /\ Exists(disk, _get_storage_path(last.file_id, VARIANT_THUMBNAIL, ".webp"))

\* C16: an identity determines the path of its original: two image ingestions that
\* return the same file_id return the same storage_path, and at most one original
\* file per identity is on disk.
C16_OneOriginalPerIdentity ==
    /\ [](\A p, q \in DOMAIN disk :
            (p.root = VARIANT_ORIGINAL /\ q.root = VARIANT_ORIGINAL /\ p.stem = q.stem) => p = q)
    /\ [][(StoredImage(last) /\ StoredImage(last')
           /\ last'.result.file_id = last.result.file_id)
          => last'.result.storage_path = last.result.storage_path]_vars

-----------------------------------------------------------------------------
(* Claims about path resolution, under SpecPath *)

\* C17: get_file_path returns the layout path for every input: an image variant at
\* <variant>/<id[0:2]>/<id[2:4]>/<id><ext>, thumbnail and web ending in .webp, a video
\* file at videos/<id><ext>, a video's poster thumbnail at
\* thumbnails/<xx>/<yy>/<id>.webp; and it is the path the file-serving API resolves.
C17_ResolvesLayoutPath ==
    last.op = "get_file_path" =>
        /\ last.path = last.served
        /\ last.path =
              IF last.is_video /\ last.variant = VARIANT_ORIGINAL
              THEN MkPath("videos", <<>>, <<>>, last.file_id, last.extension)
              ELSE IF last.is_video /\ last.variant = VARIANT_THUMBNAIL
              THEN MkPath("thumbnails", Slice(last.file_id, 0, 2), Slice(last.file_id, 2, 4),
                          last.file_id, ".webp")
              ELSE IF last.is_video
              THEN last.path
              ELSE MkPath(last.variant, Slice(last.file_id, 0, 2), Slice(last.file_id, 2, 4),
                          last.file_id,
                          IF last.variant = VARIANT_ORIGINAL THEN last.extension ELSE ".webp")

-----------------------------------------------------------------------------
(* Claims about videos in the catalog, under Spec *)

VideoFiles(d) == {p \in DOMAIN d : p.root = "videos"}

\* C18: every stored video has exactly one Photo row that references it, and removing
\* that row deletes the video's file in the same operation.
C18_VideoHasOneRecord ==
    \A p \in VideoFiles(disk) :
        Cardinality({x \in DOMAIN photos : photos[x].file_hash = p.stem}) = 1

-----------------------------------------------------------------------------
(* Claims about coroutines and the sweep, under SpecTasks *)

\* a step of the periodic sweep: no coroutine moves, no id is drawn, no time passes
TaskSweepStep == tasks' = tasks /\ uuid_count' = uuid_count /\ now' = now

\* the temp files that coroutines which have not ended stream to
TempInUse == {tasks[t].path : t \in {x \in DOMAIN tasks : /\ tasks[x].op = "store_file_streaming"
                                                          /\ tasks[x].pc = "streaming"
                                                          /\ ~is_video(tasks[x].extension)}}

\* the sessions that upload_chunk and complete_chunked_upload coroutines which have
\* not ended work on
SessionsInUse == {tasks[t].upload_id : t \in {x \in DOMAIN tasks : /\ tasks[x].op \in {"upload_chunk", "complete_chunked_upload"}
                                                                   /\ tasks[x].pc # "ended"}}

\* C11: a sweep removes no temp file that an ingestion in progress streams to and
\* no session directory that an upload_chunk or complete_chunked_upload in progress
\* works on.
C11_SweepSparesWhatIsInUse ==
    [][TaskSweepStep =>
        /\ \A p \in TempInUse : Exists(disk, p) => Exists(disk', p)
        /\ \A u \in SessionsInUse : u \in DOMAIN chunks => u \in DOMAIN chunks']_vars

\* a session that nobody touched for a day was removed by the sweep while
\* upload_chunk awaited the request body, and the chunk could not be written
C11_SessionSweptUnderChunk ==
    \E t \in DOMAIN tasks :
        /\ tasks[t].op = "upload_chunk"
        /\ tasks[t].status = 500
        /\ tasks[t].error = "FileNotFoundError"
        /\ last.op = "cleanup_old_temp_files"
        /\ tasks[t].upload_id \in last.removed.sessions

ImageStores ==
    {t \in DOMAIN tasks : tasks[t].op = "store_file_streaming" /\ ~is_video(tasks[t].extension)}

\* two image ingestions of the same bytes that ran side by side, each of which
\* found no original at its storage_path, both ended
RacedPairs ==
    {pair \in ImageStores \X ImageStores :
        /\ pair[1] \in tasks[pair[2]].concurrent
        /\ tasks[pair[1]].bytes = tasks[pair[2]].bytes
        /\ \A i \in {1, 2} : /\ tasks[pair[i]].pc = "ended"
                             /\ tasks[pair[i]].result # NoResult
                             /\ ~tasks[pair[i]].result.is_duplicate}

OriginalsOf(file_id) == {p \in DOMAIN disk : p.root = VARIANT_ORIGINAL /\ p.stem = file_id}

\* C12: two concurrent image ingestions of the same bytes that both observed that
\* no original exists both end without error with the same identity, and then
\* exactly one original holds the bytes and neither temp file remains.
C12_RaceLeavesOneOriginal ==
    \A pair \in RacedPairs :
        LET a == tasks[pair[1]]
            b == tasks[pair[2]]
        IN  /\ a.status = 200 /\ b.status = 200
            /\ a.result.file_id = b.result.file_id
            /\ Cardinality(OriginalsOf(a.result.file_id)) = 1
            /\ \A p \in OriginalsOf(a.result.file_id) : disk[p].data = Raw(a.bytes)
            /\ ~Exists(disk, a.path) /\ ~Exists(disk, b.path)

Aborted == {t \in DOMAIN tasks : tasks[t].error = "CancelledError"}

\* C13: the data received by an ingestion that was aborted mid-stream is at no
\* permanent path, only in a temp_ file, and a sweep that finds that file older
\* than one hour removes it.
C13_AbortedStaysTemp ==
    /\ [](\A t \in Aborted : Exists(disk, tasks[t].path) => tasks[t].path.root = "temp_")
    /\ [][TaskSweepStep =>
            \A t \in Aborted :
                (Exists(disk, tasks[t].path) /\ FileExpired(disk[tasks[t].path].mtime, now))
                    => ~Exists(disk', tasks[t].path)]_vars

\* the sessions whose assembled file store_file_streaming has returned for
Completed(u) ==
    \E t \in DOMAIN tasks : /\ tasks[t].op = "complete_chunked_upload"
                            /\ tasks[t].upload_id = u
                            /\ tasks[t].result # NoResult

-----------------------------------------------------------------------------
(* Claims about the periodic task, under SpecLifecycle *)

\* a periodic_cleanup task ran its sweep in this step
PeriodicSweepStep ==
    \E t \in DOMAIN tasks : tasks'[t].sleeping_since > tasks[t].sleeping_since

\* C20: after stop_cleanup_task has returned, and until start_cleanup_task is
\* called again, no periodic sweep runs, whatever calls of start_cleanup_task and
\* stop_cleanup_task came before.
C20_NoSweepAfterStop ==
    [][~Running => ~PeriodicSweepStep]_vars

-----------------------------------------------------------------------------
(* Claims about failures while deleting, under SpecStore *)

\* the paths delete_file goes over for an identity
DeletePaths(file_id, extension, video) ==
    IF video THEN {_get_video_path(file_id, extension)}
    ELSE VariantPaths(file_id, extension, FALSE)

\* C21: delete_file raises nothing, whether a variant file is missing or its
\* removal fails, and a removal that fails does not keep the other variant paths
\* from being removed: at most the one file whose removal failed is left.
C21_DeleteSwallowsPerPath ==
    [][last'.op = "delete_file" =>
        /\ ~last'.raised
        /\ Cardinality(DeletePaths(last'.file_id, last'.extension, last'.is_video)
                           \cap DOMAIN disk') <= 1]_vars

-----------------------------------------------------------------------------
(* Claims about registration and two-factor login, under SpecAuth *)

\* C22: while an admin exists no step of register creates another one, so the
\* table never holds more than one admin.
C22_AtMostOneAdmin ==
    /\ [](Cardinality(DOMAIN admins) <= 1)
    /\ [][admins # NoDisk => DOMAIN admins' = DOMAIN admins]_vars

\* the verify_2fa requests of admin a that were answered with tokens for backup code c
AcceptedWith(a, c) ==
    {t \in DOMAIN tasks :
        /\ tasks[t].op = "verify_2fa" /\ tasks[t].status = 200 /\ tasks[t].method = "backup"
        /\ tasks[t].admin_id = a
        /\ NormalizeCode(StripCode(tasks[t].code)) = c}

\* a verify_2fa request t is answered with tokens for a backup code in this step
BackupAcceptedStep(t) ==
    /\ t \in DOMAIN tasks
    /\ tasks[t].op = "verify_2fa" /\ tasks[t].pc = "verify"
    /\ tasks'[t].status = 200 /\ tasks'[t].method = "backup"

\* C23: a backup code that verify_2fa accepts is no longer among the admin's stored
\* codes, where presenting it again is rejected, and no backup code of an admin
\* is answered with tokens more than once.
C23_BackupCodeSingleUse ==
    /\ [](\A a \in DOMAIN admins, c \in {NormalizeCode(StripCode(x)) : x \in Codes} :
             Cardinality(AcceptedWith(a, c)) <= 1)
    /\ [][\A t \in TaskIds :
             BackupAcceptedStep(t) =>
                 ~verify_backup_code(admins'[tasks[t].admin_id].backup_codes,
                                     tasks[t].code).valid]_vars

\* admin a has 2FA enabled and configured
TwoFactor(a) == a \in DOMAIN admins /\ admins[a].totp_enabled /\ admins[a].totp_secret # ""

\* login answers a correct password of an admin with 2FA in this step
TwoFactorLoginStep ==
    /\ last' # last
    /\ last'.op = "login" /\ last'.status = 200
    /\ TwoFactor(last'.admin_id)

\* verify_2fa request t is answered with access and refresh tokens in this step
TokensStep(t) ==
    /\ t \in DOMAIN tasks
    /\ tasks[t].op = "verify_2fa" /\ tasks[t].pc = "verify"
    /\ tasks'[t].status = 200

\* C27: for an admin with 2FA, login with the right password hands out the
\* 2fa_pending token and nothing else; that token is refused as an access token;
\* and verify_2fa answers with access and refresh tokens only for a valid temporary
\* token together with a valid TOTP code or a backup code that has not been used.
C27_TokensOnlyAfterSecondFactor ==
    /\ [][TwoFactorLoginStep =>
             /\ last'.requires_2fa
             /\ issued' \ issued \subseteq {create_temp_2fa_token(last'.admin_id)}]_vars
    /\ [][(last' # last /\ last'.op = "get_current_user" /\ last'.token.type = "2fa_pending")
             => last'.status = 401]_vars
    /\ [][\A t \in TaskIds :
             TokensStep(t) =>
                 LET k == tasks[t]
                     code == StripCode(k.code)
                 IN  /\ k.admin_id \in DOMAIN admins
                     /\ create_temp_2fa_token(k.admin_id) \in issued
                     /\ \/ TotpShaped(code) /\ verify_totp_code(admins[k.admin_id].totp_secret, code)
                        \/ /\ verify_backup_code(k.row.backup_codes, code).valid
                           /\ AcceptedWith(k.admin_id, NormalizeCode(code)) = {}]_vars

-----------------------------------------------------------------------------
(* Claims about the reference counts and the order of deletion, under Spec *)

\* the Photo rows that reference identity h
Referencing(ph, h) == {x \in DOMAIN ph : ph[x].file_hash = h}

\* C24: the FileHash row of every image identity counts exactly the Photo rows
\* that reference it, and no count is negative.
C24_CountIsNumberOfPhotos ==
    \A h \in DOMAIN file_hashes :
        /\ file_hashes[h].reference_count >= 0
        /\ ~is_video(file_hashes[h].file_extension) =>
               file_hashes[h].reference_count = Cardinality(Referencing(photos, h))

\* C25: a delete handler changes the disk only after its commit has succeeded, and
\* then only removes files of identities whose rows that commit removed; when the
\* commit fails the request fails and every file of the identities that reached 0
\* is still there; when a delete_file fails after the commit the request still
\* answers 204 and the rows stay removed.
C25_FilesGoAfterCommit ==
    [][last'.op \in DeleteOps =>
        /\ disk' # disk => last'.committed
        /\ \A p \in DOMAIN disk \ DOMAIN disk' :
              \E f \in last'.zero : p.stem = f.file_id /\ f.file_id \notin DOMAIN file_hashes'
        /\ ~last'.committed =>
              /\ last'.status = 500
              /\ \A f \in last'.zero : FilesOf(disk', f) = FilesOf(disk, f)
        /\ last'.failed # {} =>
              /\ last'.status = 204
              /\ \A f \in last'.zero : f.file_id \notin DOMAIN file_hashes'
              /\ DOMAIN photos' \subseteq DOMAIN photos /\ DOMAIN photos' # DOMAIN photos]_vars

\* the commit of a deletion failed for an identity that had reached 0, and the
\* files of that identity are on disk
C25_Witness ==
    /\ last.op \in DeleteOps
    /\ ~last.committed
    /\ \E f \in last.zero : Exists(disk, StoredAt(f))

-----------------------------------------------------------------------------
(* Claims about the temp file of an image ingestion, under SpecStore *)

TempOnes(d) == {p \in DOMAIN d : p.root = "temp_"}

\* an image ingestion ends in this step, with a result or with an error
ImageStoreStep == last'.op = "store" /\ ~is_video(last'.extension)

-----------------------------------------------------------------------------
(* Claims about concurrent requests of the catalog layer, under SpecCatalog *)

\* every request has been answered
Quiescent == \A t \in DOMAIN tasks : tasks[t].pc = "ended"

CountOf(fh, h) == IF h \in DOMAIN fh THEN fh[h].reference_count ELSE 0

\* the requests so far are all uploads
OnlyUploads == \A t \in DOMAIN tasks : tasks[t].op = "upload_file"

\* the upload t is answered 200 in this step
UploadDoneStep(t) ==
    /\ t \in DOMAIN tasks
    /\ tasks[t].op = "upload_file" /\ tasks[t].pc = "commit"
    /\ tasks'[t].status = 200

\* C28: every upload that completes adds exactly one to the count of its identity,
\* whatever other uploads are in flight, and once the uploads have all completed,
\* with no deletion among the requests, the count is the number of Photo rows
\* that reference the identity.
C28_NoReferenceLost ==
    /\ [][\A t \in TaskIds :
             (UploadDoneStep(t) /\ OnlyUploads) =>
                 CountOf(file_hashes', tasks[t].file.file_id)
                     = CountOf(file_hashes, tasks[t].file.file_id) + 1]_vars
    /\ []((Quiescent /\ OnlyUploads) =>
             \A h \in DOMAIN file_hashes :
                 ~is_video(file_hashes[h].file_extension) =>
                     file_hashes[h].reference_count = Cardinality(Referencing(photos, h)))

\* C29: when every request has been answered, each image identity that has a
\* FileHash row with reference_count >= 1 has its original on disk.
C29_CountedOriginalExists ==
    Quiescent =>
        \A h \in DOMAIN file_hashes :
            (file_hashes[h].reference_count >= 1 /\ ~is_video(file_hashes[h].file_extension))
                => Exists(disk, file_hashes[h].storage_path)

-----------------------------------------------------------------------------
(* Claims about the assembly of a chunked upload, under SpecAssemble *)

\* the indexes received so far, smallest first
RECURSIVE Ascending(_)
Ascending(S) ==
    IF S = {} THEN <<>>
    ELSE LET least == CHOOSE i \in S : \A j \in S : i <= j
         IN  <<least>> \o Ascending(S \ {least})

Received == {chunks.chunks_received[i] : i \in DOMAIN chunks.chunks_received}

\* C30: what complete_chunked_upload hands on is the data last sent for each
\* received index, once each, in ascending order of chunk_index.
C30_AssembledInIndexOrder ==
    [][last'.op = "complete_chunked_upload" =>
          last'.assembled =
              [i \in 1..Cardinality(Received) |->
                  chunks.files[ChunkFileName(Ascending(Received)[i])]]]_vars

====
